---- MODULE Spec2Model ----
(***************************************************************************)
(* Model of the event-driven conversation core of interactive-chat-ai:     *)
(* SystemState, Event, Action and Reducer.reduce of                        *)
(* interactive_chat/core/event_driven_core.py.                             *)
(*                                                                         *)
(* Representation of the Python values:                                    *)
(*  - timestamps are floats in seconds in the source; here they are        *)
(*    integers in milliseconds (timestamp * 1000).  A field that the       *)
(*    source stores in seconds is stored here as that number of seconds    *)
(*    times 1000, and every comparison is scaled accordingly;              *)
(*  - None is the value None (-1); `if x:` on an Optional number is        *)
(*    Truthy(x): false for None and for 0;                                 *)
(*  - interruption_sensitivity is a float in [0,1]; here it is the integer *)
(*    percentage (0.5 is 50);                                              *)
(*  - a text is a sequence of one-character strings, an audio frame is a   *)
(*    token;                                                               *)
(*  - turn_confidence_score is a float in [0,1]; here it is the integer    *)
(*    percentage (1.0 is 100); the latencies are integers in ms;           *)
(*  - the field of SystemState that reduce only writes for display         *)
(*    (previous_speaker) is left out; emit_signal calls are notifications  *)
(*    that do not change the state or the actions.                         *)
(***************************************************************************)
EXTENDS Integers, Sequences, FiniteSets, TLC

None == -1

Truthy(x) == x # None /\ x # 0

(***************************************************************************)
(* Bounds of the model.                                                    *)
(***************************************************************************)
MaxQueue == 1
MaxBuffer == 1
MaxTurns == 1
MaxAttempts == 1
MaxPartials == 1

(***************************************************************************)
(* Inputs.                                                                 *)
(***************************************************************************)
\* timestamps (ms) an event can carry; events arrive in timestamp order
Times == {0, 400, 1000, 2900}

\* partial transcripts: no text, one word, two words
Texts == { <<>>, <<"a">>, <<"a", " ", "b">> }

\* sentences of the AI; the empty text is ignored by the reducer
Sentences == { <<>>, <<"x">> }

\* the next_phase of a PHASE_TRANSITION; "" is a request that names no phase
Phases == { "", "part1" }

\* SystemState defaults of the timing configuration
DefaultPauseMs == 600
DefaultEndMs == 1200
DefaultSafetyTimeoutMs == 2500

\* Reducer._check_interruption: the debounce window in ms
DebounceMs == 250

Profile(auth, sens, limit) ==
  [authority |-> auth, pause_ms |-> DefaultPauseMs, end_ms |-> DefaultEndMs,
   safety_timeout_ms |-> DefaultSafetyTimeoutMs,
   interruption_sensitivity |-> sens, human_speaking_limit_sec |-> limit]

\* configurations a session is constructed with
Profiles ==
  { Profile("human", 50, 1), Profile("ai", 100, None),
    Profile("default", 100, None), Profile("default", 0, None),
    Profile("default", 50, None), Profile("default", 60, 1) }

(***************************************************************************)
(* Event and Action.                                                       *)
(***************************************************************************)
EventTypes ==
  { "VAD_SPEECH_START", "VAD_SPEECH_STOP", "AUDIO_FRAME",
    "ASR_PARTIAL_TRANSCRIPT", "AI_SENTENCE_READY", "AI_SPEECH_FINISHED",
    "TICK", "RESET_TURN", "PHASE_TRANSITION" }

\* An event; a payload key the event does not carry has the value that
\* payload.get returns a falsy default for.
Event(type, timestamp, is_speech, text, next_phase) ==
  [type |-> type, timestamp |-> timestamp, frame |-> "f",
   is_speech |-> is_speech, text |-> text, next_phase |-> next_phase]

Action(type, reason) == [type |-> type, reason |-> reason]

Log(message) == Action("LOG", message)

(***************************************************************************)
(* SystemState.                                                            *)
(***************************************************************************)
SystemState(p) ==
  [is_ai_speaking |-> FALSE,
   is_human_speaking |-> FALSE,
   ai_speech_queue |-> <<>>,
   turn_start_time |-> None,
   last_voice_time |-> None,
   turn_audio_buffer |-> <<>>,
   current_partial_transcript |-> <<>>,
   authority |-> p.authority,
   pause_ms |-> p.pause_ms,
   end_ms |-> p.end_ms,
   safety_timeout_ms |-> p.safety_timeout_ms,
   interruption_sensitivity |-> p.interruption_sensitivity,
   human_speaking_limit_sec |-> p.human_speaking_limit_sec,
   current_phase_id |-> "",
   active_phase_id |-> "",
   phase_index |-> 0,
   phases_completed |-> <<>>,
   current_speaker |-> "silence",
   human_speaking_limit_ack_sent |-> FALSE,
   force_ended |-> FALSE,
   last_interrupt_time |-> 0,
   turn_id |-> 0,
   state_machine |-> "IDLE",
   turn_interrupt_attempts |-> 0,
   turn_interrupt_accepts |-> 0,
   turn_partial_transcripts |-> <<>>,
   turn_final_transcript |-> <<>>,
   turn_ai_transcript |-> <<>>,
   turn_end_reason |-> "",
   turn_transcription_ms |-> 0,
   turn_llm_generation_ms |-> 0,
   turn_total_latency_ms |-> 0,
   turn_confidence_score |-> 100]

(***************************************************************************)
(* Reducer.                                                                *)
(***************************************************************************)
\* mutant: the mute tests the wrong authority
IsMicMuted_WrongAuthority(s) == s.authority = "human" /\ s.is_ai_speaking

IsMicMuted(s) == s.authority = "ai" /\ s.is_ai_speaking

\* str.split() of a text: the number of maximal runs of non-blank characters
RECURSIVE WordCountFrom(_, _, _)
WordCountFrom(text, i, inWord) ==
  IF i > Len(text) THEN 0
  ELSE IF text[i] = " " THEN WordCountFrom(text, i + 1, FALSE)
  ELSE (IF inWord THEN 0 ELSE 1) + WordCountFrom(text, i + 1, TRUE)

WordCount(text) == IF text = <<>> THEN 0 ELSE WordCountFrom(text, 1, FALSE)

\* mutant: the hybrid rule accepts energy alone from sensitivity 0.5 on
CheckInterruption_HybridBoundary(s, e) ==
  LET word_count == WordCount(s.current_partial_transcript)
      energy_condition == e.is_speech
      sens == s.interruption_sensitivity
  IN IF s.authority = "ai" THEN [should |-> FALSE, reason |-> "authority is ai"]
     ELSE IF 1000 * e.timestamp - s.last_interrupt_time <= 1000 * DebounceMs
       THEN [should |-> FALSE, reason |-> "debounce"]
     ELSE IF s.authority = "human" /\ word_count >= 1
       THEN [should |-> TRUE, reason |-> "speech"]
     ELSE IF s.authority = "human" /\ energy_condition
       THEN [should |-> TRUE, reason |-> "energy trigger (absolute human auth)"]
     ELSE IF sens >= 90 THEN [should |-> energy_condition, reason |-> "energy spike"]
     ELSE IF sens <= 10 THEN [should |-> word_count >= 2, reason |-> "speech"]
     ELSE IF energy_condition /\ (word_count >= 2 \/ sens >= 50)
       THEN [should |-> TRUE, reason |-> "hybrid trigger"]
     ELSE [should |-> FALSE, reason |-> ""]

\* Reducer._check_interruption; last_interrupt_time holds seconds (scaled by
\* 1000 here) and is subtracted from now_ms as it is
CheckInterruption(s, e) ==
  LET word_count == WordCount(s.current_partial_transcript)
      energy_condition == e.is_speech
      sens == s.interruption_sensitivity
  IN IF s.authority = "ai" THEN [should |-> FALSE, reason |-> "authority is ai"]
     ELSE IF 1000 * e.timestamp - s.last_interrupt_time <= 1000 * DebounceMs
       THEN [should |-> FALSE, reason |-> "debounce"]
     ELSE IF s.authority = "human" /\ word_count >= 1
       THEN [should |-> TRUE, reason |-> "speech"]
     ELSE IF s.authority = "human" /\ energy_condition
       THEN [should |-> TRUE, reason |-> "energy trigger (absolute human auth)"]
     ELSE IF sens >= 90 THEN [should |-> energy_condition, reason |-> "energy spike"]
     ELSE IF sens <= 10 THEN [should |-> word_count >= 2, reason |-> "speech"]
     ELSE IF energy_condition /\ (word_count >= 2 \/ sens > 50)
       THEN [should |-> TRUE, reason |-> "hybrid trigger"]
     ELSE [should |-> FALSE, reason |-> ""]

\* config.py: INTERRUPT_DEBOUNCE_MS and MIN_WORDS_FOR_INTERRUPT
InterruptDebounceMs == 250
MinWordsForInterrupt == 1

\* InterruptionManager after set_profile_settings(sensitivity, authority),
\* its last accepted interruption at last_interrupt_time (ms)
InterruptionManager(sensitivity, authority, last_interrupt_time) ==
  [last_interrupt_time |-> last_interrupt_time,
   sensitivity |-> IF sensitivity < 0 THEN 0
                   ELSE IF sensitivity > 100 THEN 100 ELSE sensitivity,
   authority |-> authority]

\* InterruptionManager.should_interrupt; now_ms is current_time in ms, and
\* an accepted interruption stores now_ms in last_interrupt_time
ShouldInterrupt(self, ai_speaking, now_ms, energy_condition, detected_words) ==
  LET word_count == WordCount(detected_words)
      speech_condition == word_count >= MinWordsForInterrupt
      should_interrupt ==
        IF self.sensitivity >= 90 THEN energy_condition
        ELSE IF self.sensitivity <= 10 THEN speech_condition
        ELSE IF ~energy_condition THEN FALSE
        ELSE IF speech_condition THEN TRUE
        ELSE self.sensitivity > 50
  IN IF self.authority = "ai"
       THEN [should |-> FALSE, reason |-> "authority is ai", self |-> self]
     ELSE IF ~ai_speaking
       THEN [should |-> FALSE, reason |-> "AI not speaking", self |-> self]
     ELSE IF now_ms - self.last_interrupt_time <= InterruptDebounceMs
       THEN [should |-> FALSE, reason |-> "debounce", self |-> self]
     ELSE [should |-> should_interrupt,
           reason |-> IF self.sensitivity >= 90 THEN "energy"
                      ELSE IF self.sensitivity <= 10 THEN "speech"
                      ELSE "hybrid",
           self |-> IF should_interrupt
                      THEN [self EXCEPT !.last_interrupt_time = now_ms]
                    ELSE self]

\* The result of the first part of reduce: the state, the actions so far and
\* whether reduce returned early.
Handled(s, acts, returned) == [state |-> s, actions |-> acts, returned |-> returned]

\* mutant: speech that resumes in a pause leaves the machine pausing
ReduceSpeechStart_NoResume(s, e) ==
  IF IsMicMuted(s) THEN Handled(s, <<>>, TRUE)
  ELSE
    LET s1 == [s EXCEPT !.is_human_speaking = TRUE,
                        !.last_voice_time = e.timestamp,
                        !.turn_start_time =
                           IF @ = None THEN e.timestamp ELSE @,
                        !.current_speaker = "human"]
    IN IF s.state_machine = "IDLE"
         THEN Handled([s1 EXCEPT !.state_machine = "SPEAKING"],
                      <<Log("Speech started")>>, FALSE)
       ELSE Handled(s1, <<>>, FALSE)

ReduceSpeechStart(s, e) ==
  IF IsMicMuted(s) THEN Handled(s, <<>>, TRUE)
  ELSE
    LET s1 == [s EXCEPT !.is_human_speaking = TRUE,
                        !.last_voice_time = e.timestamp,
                        !.turn_start_time =
                           IF @ = None THEN e.timestamp ELSE @,
                        !.current_speaker = "human"]
    IN IF s.state_machine = "IDLE"
         THEN Handled([s1 EXCEPT !.state_machine = "SPEAKING"],
                      <<Log("Speech started")>>, FALSE)
       ELSE IF s.state_machine = "PAUSING"
         THEN Handled([s1 EXCEPT !.state_machine = "SPEAKING"],
                      <<Log("Speech resumed")>>, FALSE)
       ELSE Handled(s1, <<>>, FALSE)

\* mutant: VAD_SPEECH_STOP does not test the mute
ReduceSpeechStop_NoMute(s, e) ==
  Handled([s EXCEPT !.is_human_speaking = FALSE], <<>>, FALSE)

ReduceSpeechStop(s, e) ==
  IF IsMicMuted(s) THEN Handled(s, <<>>, TRUE)
  ELSE Handled([s EXCEPT !.is_human_speaking = FALSE], <<>>, FALSE)

\* mutant: a forced end does not close the microphone
CanListen_AfterForceEnd(s) == ~IsMicMuted(s)

\* can_listen of the AUDIO_FRAME branch
CanListen(s) == ~IsMicMuted(s) /\ ~s.force_ended

\* mutant: an accepted interruption leaves the queued sentences in place
ReduceAudioFrame_KeepQueue(s, e) ==
  IF ~CanListen(s) THEN Handled(s, <<>>, FALSE)
  ELSE
    LET s1 == [s EXCEPT !.turn_audio_buffer = Append(@, e.frame),
                        !.last_voice_time =
                           IF e.is_speech THEN e.timestamp ELSE @]
        chk == CheckInterruption(s1, e)
        s2 == [s1 EXCEPT !.turn_interrupt_attempts = @ + 1]
    IN IF ~s1.is_ai_speaking THEN Handled(s1, <<>>, FALSE)
       ELSE IF ~chk.should THEN Handled(s2, <<>>, FALSE)
       ELSE Handled([s2 EXCEPT !.turn_interrupt_accepts = @ + 1,
                               !.last_interrupt_time = e.timestamp,
                               !.is_ai_speaking = FALSE],
                    <<Action("INTERRUPT_AI", chk.reason), Log("INTERRUPT")>>,
                    FALSE)

\* mutant: the frame handler of an energy detector, which neither mutes the
\* microphone nor asks _check_interruption: any speech frame interrupts
ReduceAudioFrame_EnergyOnly(s, e) ==
  IF s.force_ended THEN Handled(s, <<>>, FALSE)
  ELSE
    LET s1 == [s EXCEPT !.turn_audio_buffer = Append(@, e.frame),
                        !.last_voice_time =
                           IF e.is_speech THEN e.timestamp ELSE @]
        s2 == [s1 EXCEPT !.turn_interrupt_attempts = @ + 1]
    IN IF ~s1.is_ai_speaking THEN Handled(s1, <<>>, FALSE)
       ELSE IF ~e.is_speech THEN Handled(s2, <<>>, FALSE)
       ELSE Handled([s2 EXCEPT !.turn_interrupt_accepts = @ + 1,
                               !.last_interrupt_time = e.timestamp,
                               !.is_ai_speaking = FALSE,
                               !.ai_speech_queue = <<>>],
                    <<Action("INTERRUPT_AI", "energy"), Log("INTERRUPT")>>,
                    FALSE)

\* mutant: only an accepted interruption is counted as an attempt
ReduceAudioFrame_CountAccepted(s, e) ==
  IF ~CanListen(s) THEN Handled(s, <<>>, FALSE)
  ELSE
    LET s1 == [s EXCEPT !.turn_audio_buffer = Append(@, e.frame),
                        !.last_voice_time =
                           IF e.is_speech THEN e.timestamp ELSE @]
        chk == CheckInterruption(s1, e)
    IN IF ~s1.is_ai_speaking \/ ~chk.should THEN Handled(s1, <<>>, FALSE)
       ELSE Handled([s1 EXCEPT !.turn_interrupt_attempts = @ + 1,
                               !.turn_interrupt_accepts = @ + 1,
                               !.last_interrupt_time = e.timestamp,
                               !.is_ai_speaking = FALSE,
                               !.ai_speech_queue = <<>>],
                    <<Action("INTERRUPT_AI", chk.reason), Log("INTERRUPT")>>,
                    FALSE)

\* mutant: an accepted interruption drops only the sentence at the head of
\* the queue
ReduceAudioFrame_DropHead(s, e) ==
  IF ~CanListen(s) THEN Handled(s, <<>>, FALSE)
  ELSE
    LET s1 == [s EXCEPT !.turn_audio_buffer = Append(@, e.frame),
                        !.last_voice_time =
                           IF e.is_speech THEN e.timestamp ELSE @]
        chk == CheckInterruption(s1, e)
        s2 == [s1 EXCEPT !.turn_interrupt_attempts = @ + 1]
    IN IF ~s1.is_ai_speaking THEN Handled(s1, <<>>, FALSE)
       ELSE IF ~chk.should THEN Handled(s2, <<>>, FALSE)
       ELSE Handled([s2 EXCEPT !.turn_interrupt_accepts = @ + 1,
                               !.last_interrupt_time = e.timestamp,
                               !.is_ai_speaking = FALSE,
                               !.ai_speech_queue =
                                  IF @ = <<>> THEN @ ELSE Tail(@)],
                    <<Action("INTERRUPT_AI", chk.reason), Log("INTERRUPT")>>,
                    FALSE)

ReduceAudioFrame(s, e) ==
  IF ~CanListen(s) THEN Handled(s, <<>>, FALSE)
  ELSE
    LET s1 == [s EXCEPT !.turn_audio_buffer = Append(@, e.frame),
                        !.last_voice_time =
                           IF e.is_speech THEN e.timestamp ELSE @]
        chk == CheckInterruption(s1, e)
        s2 == [s1 EXCEPT !.turn_interrupt_attempts = @ + 1]
    IN IF ~s1.is_ai_speaking THEN Handled(s1, <<>>, FALSE)
       ELSE IF ~chk.should THEN Handled(s2, <<>>, FALSE)
       ELSE Handled([s2 EXCEPT !.turn_interrupt_accepts = @ + 1,
                               !.last_interrupt_time = e.timestamp,
                               !.is_ai_speaking = FALSE,
                               !.ai_speech_queue = <<>>],
                    <<Action("INTERRUPT_AI", chk.reason), Log("INTERRUPT")>>,
                    FALSE)

ReducePartialTranscript(s, e) ==
  IF IsMicMuted(s) THEN Handled(s, <<>>, TRUE)
  ELSE Handled([s EXCEPT !.current_partial_transcript = e.text,
                         !.turn_partial_transcripts =
                            IF e.text # <<>> THEN Append(@, e.text) ELSE @],
               <<>>, FALSE)

ReduceSentenceReady(s, e) ==
  IF e.text = <<>> THEN Handled(s, <<>>, FALSE)
  ELSE IF ~s.is_ai_speaking
    THEN Handled([s EXCEPT !.is_ai_speaking = TRUE,
                           !.current_speaker = "ai"],
                 <<Log("AI Sentence ready"), Action("SPEAK_SENTENCE", e.text)>>,
                 FALSE)
  ELSE Handled([s EXCEPT !.ai_speech_queue = Append(@, e.text)],
               <<Log("AI Sentence ready")>>, FALSE)

\* mutant: the sentence queued last is spoken next
ReduceSpeechFinished_Lifo(s, e) ==
  IF s.ai_speech_queue # <<>>
    THEN Handled([s EXCEPT !.ai_speech_queue = SubSeq(@, 1, Len(@) - 1)],
                 <<Log("AI speaking next sentence"),
                   Action("SPEAK_SENTENCE",
                          s.ai_speech_queue[Len(s.ai_speech_queue)])>>, FALSE)
  ELSE Handled([s EXCEPT !.is_ai_speaking = FALSE,
                         !.current_speaker =
                            IF @ = "ai" THEN "silence" ELSE @],
               <<Log("AI finished speaking")>>, FALSE)

ReduceSpeechFinished(s, e) ==
  IF s.ai_speech_queue # <<>>
    THEN Handled([s EXCEPT !.ai_speech_queue = Tail(@)],
                 <<Log("AI speaking next sentence"),
                   Action("SPEAK_SENTENCE", Head(s.ai_speech_queue))>>, FALSE)
  ELSE Handled([s EXCEPT !.is_ai_speaking = FALSE,
                         !.current_speaker =
                            IF @ = "ai" THEN "silence" ELSE @],
               <<Log("AI finished speaking")>>, FALSE)

\* the LOG_TURN payload: the metrics of the completed turn
TurnMetrics(s) ==
  [type |-> "LOG_TURN",
   reason |-> [turn_id |-> s.turn_id, timestamp |-> s.turn_start_time,
               interrupt_attempts |-> s.turn_interrupt_attempts,
               interrupt_accepts |-> s.turn_interrupt_accepts,
               partial_transcripts |-> s.turn_partial_transcripts,
               final_transcript |-> s.turn_final_transcript,
               ai_transcript |-> s.turn_ai_transcript,
               end_reason |-> s.turn_end_reason,
               transcription_ms |-> s.turn_transcription_ms,
               llm_generation_ms |-> s.turn_llm_generation_ms,
               total_latency_ms |-> s.turn_total_latency_ms,
               confidence_score |-> s.turn_confidence_score]]

\* mutant: the reset also forgets the last interruption
ReduceResetTurn_ClearInterrupt(s, e) ==
  LET acts == IF Truthy(s.turn_start_time) /\ s.turn_final_transcript # <<>>
                THEN <<Log("Resetting for next turn"), TurnMetrics(s)>>
              ELSE <<Log("Resetting for next turn")>>
  IN Handled([s EXCEPT !.turn_audio_buffer = <<>>,
                       !.current_partial_transcript = <<>>,
                       !.turn_start_time = None,
                       !.last_voice_time = None,
                       !.human_speaking_limit_ack_sent = FALSE,
                       !.force_ended = FALSE,
                       !.last_interrupt_time = 0,
                       !.turn_interrupt_attempts = 0,
                       !.turn_interrupt_accepts = 0,
                       !.turn_partial_transcripts = <<>>,
                       !.turn_final_transcript = <<>>,
                       !.turn_ai_transcript = <<>>,
                       !.turn_end_reason = "",
                       !.turn_transcription_ms = 0,
                       !.turn_llm_generation_ms = 0,
                       !.turn_total_latency_ms = 0,
                       !.turn_confidence_score = 100,
                       !.turn_id = @ + 1],
             acts, FALSE)

\* mutant: only a turn with content is counted
ReduceResetTurn_CountContent(s, e) ==
  LET logs == Truthy(s.turn_start_time) /\ s.turn_final_transcript # <<>>
      acts == IF logs
                THEN <<Log("Resetting for next turn"), TurnMetrics(s)>>
              ELSE <<Log("Resetting for next turn")>>
  IN Handled([s EXCEPT !.turn_audio_buffer = <<>>,
                       !.current_partial_transcript = <<>>,
                       !.turn_start_time = None,
                       !.last_voice_time = None,
                       !.human_speaking_limit_ack_sent = FALSE,
                       !.force_ended = FALSE,
                       !.turn_interrupt_attempts = 0,
                       !.turn_interrupt_accepts = 0,
                       !.turn_partial_transcripts = <<>>,
                       !.turn_final_transcript = <<>>,
                       !.turn_ai_transcript = <<>>,
                       !.turn_end_reason = "",
                       !.turn_transcription_ms = 0,
                       !.turn_llm_generation_ms = 0,
                       !.turn_total_latency_ms = 0,
                       !.turn_confidence_score = 100,
                       !.turn_id = IF logs THEN @ + 1 ELSE @],
             acts, FALSE)

\* mutant: the start of the turn and its transcript survive the reset
ReduceResetTurn_KeepContent(s, e) ==
  LET acts == IF Truthy(s.turn_start_time) /\ s.turn_final_transcript # <<>>
                THEN <<Log("Resetting for next turn"), TurnMetrics(s)>>
              ELSE <<Log("Resetting for next turn")>>
  IN Handled([s EXCEPT !.turn_audio_buffer = <<>>,
                       !.current_partial_transcript = <<>>,
                       !.last_voice_time = None,
                       !.human_speaking_limit_ack_sent = FALSE,
                       !.force_ended = FALSE,
                       !.turn_interrupt_attempts = 0,
                       !.turn_interrupt_accepts = 0,
                       !.turn_partial_transcripts = <<>>,
                       !.turn_ai_transcript = <<>>,
                       !.turn_end_reason = "",
                       !.turn_transcription_ms = 0,
                       !.turn_llm_generation_ms = 0,
                       !.turn_total_latency_ms = 0,
                       !.turn_confidence_score = 100,
                       !.turn_id = @ + 1],
             acts, FALSE)

ReduceResetTurn(s, e) ==
  LET acts == IF Truthy(s.turn_start_time) /\ s.turn_final_transcript # <<>>
                THEN <<Log("Resetting for next turn"), TurnMetrics(s)>>
              ELSE <<Log("Resetting for next turn")>>
  IN Handled([s EXCEPT !.turn_audio_buffer = <<>>,
                       !.current_partial_transcript = <<>>,
                       !.turn_start_time = None,
                       !.last_voice_time = None,
                       !.human_speaking_limit_ack_sent = FALSE,
                       !.force_ended = FALSE,
                       !.turn_interrupt_attempts = 0,
                       !.turn_interrupt_accepts = 0,
                       !.turn_partial_transcripts = <<>>,
                       !.turn_final_transcript = <<>>,
                       !.turn_ai_transcript = <<>>,
                       !.turn_end_reason = "",
                       !.turn_transcription_ms = 0,
                       !.turn_llm_generation_ms = 0,
                       !.turn_total_latency_ms = 0,
                       !.turn_confidence_score = 100,
                       !.turn_id = @ + 1],
             acts, FALSE)

\* mutant: the phase is announced but not recorded
ReducePhaseTransition_Unrecorded(s, e) ==
  IF e.next_phase = "" THEN Handled(s, <<>>, FALSE)
  ELSE Handled(s, <<Action("TRANSITION_PHASE", e.next_phase),
                    Log("Phase transition")>>, FALSE)

ReducePhaseTransition(s, e) ==
  IF e.next_phase = "" THEN Handled(s, <<>>, FALSE)
  ELSE Handled([s EXCEPT !.current_phase_id = e.next_phase],
               <<Action("TRANSITION_PHASE", e.next_phase),
                 Log("Phase transition")>>, FALSE)

\* mutant: a TICK ends the human speech, as a VAD_SPEECH_STOP does
HandleEvent_TickStops(s, e) ==
  CASE e.type = "VAD_SPEECH_START" -> ReduceSpeechStart(s, e)
    [] e.type = "VAD_SPEECH_STOP" -> ReduceSpeechStop(s, e)
    [] e.type = "AUDIO_FRAME" -> ReduceAudioFrame(s, e)
    [] e.type = "ASR_PARTIAL_TRANSCRIPT" -> ReducePartialTranscript(s, e)
    [] e.type = "AI_SENTENCE_READY" -> ReduceSentenceReady(s, e)
    [] e.type = "AI_SPEECH_FINISHED" -> ReduceSpeechFinished(s, e)
    [] e.type = "RESET_TURN" -> ReduceResetTurn(s, e)
    [] e.type = "PHASE_TRANSITION" -> ReducePhaseTransition(s, e)
    [] OTHER -> ReduceSpeechStop(s, e)

\* part 1 of reduce: the branch of the event type
HandleEvent(s, e) ==
  CASE e.type = "VAD_SPEECH_START" -> ReduceSpeechStart(s, e)
    [] e.type = "VAD_SPEECH_STOP" -> ReduceSpeechStop(s, e)
    [] e.type = "AUDIO_FRAME" -> ReduceAudioFrame(s, e)
    [] e.type = "ASR_PARTIAL_TRANSCRIPT" -> ReducePartialTranscript(s, e)
    [] e.type = "AI_SENTENCE_READY" -> ReduceSentenceReady(s, e)
    [] e.type = "AI_SPEECH_FINISHED" -> ReduceSpeechFinished(s, e)
    [] e.type = "RESET_TURN" -> ReduceResetTurn(s, e)
    [] e.type = "PHASE_TRANSITION" -> ReducePhaseTransition(s, e)
    [] OTHER -> Handled(s, <<>>, FALSE)

\* mutant: the silence is counted from the start of the turn
ElapsedMs_FromTurnStart(s, now) ==
  IF Truthy(s.turn_start_time) THEN now - s.turn_start_time ELSE 0

\* elapsed_ms of part 2: the silence since the last voice
ElapsedMs(s, now) ==
  IF Truthy(s.last_voice_time) THEN now - s.last_voice_time ELSE 0

\* mutant: the safety timeout does not look at the authority
StateMachineTransitions_AnyAuthority(s, acts, now) ==
  LET elapsed_ms == ElapsedMs(s, now)
  IN IF s.state_machine = "SPEAKING"
       THEN IF ~s.is_human_speaking /\ elapsed_ms >= s.pause_ms
              THEN [state |-> [s EXCEPT !.state_machine = "PAUSING"],
                    actions |-> Append(acts, Log("Pause"))]
            ELSE [state |-> s, actions |-> acts]
     ELSE IF s.state_machine = "PAUSING"
       THEN IF elapsed_ms >= s.safety_timeout_ms
              THEN [state |-> [s EXCEPT !.force_ended = TRUE,
                                        !.turn_end_reason = "safety_timeout",
                                        !.state_machine = "IDLE"],
                    actions |-> acts \o <<Log("Processing Turn"),
                                          Action("PROCESS_TURN", "safety_timeout")>>]
            ELSE IF elapsed_ms >= s.end_ms
              THEN [state |-> [s EXCEPT !.turn_end_reason = "silence",
                                        !.state_machine = "IDLE"],
                    actions |-> acts \o <<Log("Processing Turn"),
                                          Action("PROCESS_TURN", "silence")>>]
            ELSE [state |-> s, actions |-> acts]
     ELSE [state |-> s, actions |-> acts]

\* mutant: the end_ms check comes before the safety timeout
StateMachineTransitions_EndFirst(s, acts, now) ==
  LET elapsed_ms == ElapsedMs(s, now)
  IN IF s.state_machine = "SPEAKING"
       THEN IF ~s.is_human_speaking /\ elapsed_ms >= s.pause_ms
              THEN [state |-> [s EXCEPT !.state_machine = "PAUSING"],
                    actions |-> Append(acts, Log("Pause"))]
            ELSE [state |-> s, actions |-> acts]
     ELSE IF s.state_machine = "PAUSING"
       THEN IF elapsed_ms >= s.end_ms
              THEN [state |-> [s EXCEPT !.turn_end_reason = "silence",
                                        !.state_machine = "IDLE"],
                    actions |-> acts \o <<Log("Processing Turn"),
                                          Action("PROCESS_TURN", "silence")>>]
            ELSE IF s.authority # "human" /\ elapsed_ms >= s.safety_timeout_ms
              THEN [state |-> [s EXCEPT !.force_ended = TRUE,
                                        !.turn_end_reason = "safety_timeout",
                                        !.state_machine = "IDLE"],
                    actions |-> acts \o <<Log("Processing Turn"),
                                          Action("PROCESS_TURN", "safety_timeout")>>]
            ELSE [state |-> s, actions |-> acts]
     ELSE [state |-> s, actions |-> acts]

\* part 2 of reduce: state machine transitions and turn management
StateMachineTransitions(s, acts, now) ==
  LET elapsed_ms == ElapsedMs(s, now)
  IN IF s.state_machine = "SPEAKING"
       THEN IF ~s.is_human_speaking /\ elapsed_ms >= s.pause_ms
              THEN [state |-> [s EXCEPT !.state_machine = "PAUSING"],
                    actions |-> Append(acts, Log("Pause"))]
            ELSE [state |-> s, actions |-> acts]
     ELSE IF s.state_machine = "PAUSING"
       THEN IF s.authority # "human" /\ elapsed_ms >= s.safety_timeout_ms
              THEN [state |-> [s EXCEPT !.force_ended = TRUE,
                                        !.turn_end_reason = "safety_timeout",
                                        !.state_machine = "IDLE"],
                    actions |-> acts \o <<Log("Processing Turn"),
                                          Action("PROCESS_TURN", "safety_timeout")>>]
            ELSE IF elapsed_ms >= s.end_ms
              THEN [state |-> [s EXCEPT !.turn_end_reason = "silence",
                                        !.state_machine = "IDLE"],
                    actions |-> acts \o <<Log("Processing Turn"),
                                          Action("PROCESS_TURN", "silence")>>]
            ELSE [state |-> s, actions |-> acts]
     ELSE [state |-> s, actions |-> acts]

\* mutant: the limit ends the turn in whatever state the machine is
HumanSpeakingLimit_AnyState(s, acts, now) ==
  IF /\ Truthy(s.turn_start_time)
     /\ Truthy(s.human_speaking_limit_sec)
     /\ ~s.human_speaking_limit_ack_sent
     /\ now - s.turn_start_time > 1000 * s.human_speaking_limit_sec
    THEN [state |-> [s EXCEPT !.human_speaking_limit_ack_sent = TRUE,
                              !.turn_end_reason = "limit_exceeded",
                              !.state_machine = "IDLE"],
          actions |-> acts \o <<Action("PLAY_ACK", "limit_exceeded"),
                                Log("Processing Turn"),
                                Action("PROCESS_TURN", "limit_exceeded")>>]
  ELSE [state |-> s, actions |-> acts]

\* mutant: the limit does not remember that the ack was sent
HumanSpeakingLimit_Repeated(s, acts, now) ==
  IF /\ Truthy(s.turn_start_time)
     /\ Truthy(s.human_speaking_limit_sec)
     /\ now - s.turn_start_time > 1000 * s.human_speaking_limit_sec
    THEN LET s1 == [s EXCEPT !.human_speaking_limit_ack_sent = TRUE]
             a1 == Append(acts, Action("PLAY_ACK", "limit_exceeded"))
         IN IF s.state_machine = "PAUSING"
              THEN [state |-> [s1 EXCEPT !.turn_end_reason = "limit_exceeded",
                                         !.state_machine = "IDLE"],
                    actions |-> a1 \o <<Log("Processing Turn"),
                                        Action("PROCESS_TURN", "limit_exceeded")>>]
            ELSE [state |-> s1, actions |-> a1]
  ELSE [state |-> s, actions |-> acts]

\* mutant: the limit plays the ack but never ends the turn
HumanSpeakingLimit_AckOnly(s, acts, now) ==
  IF /\ Truthy(s.turn_start_time)
     /\ Truthy(s.human_speaking_limit_sec)
     /\ ~s.human_speaking_limit_ack_sent
     /\ now - s.turn_start_time > 1000 * s.human_speaking_limit_sec
    THEN [state |-> [s EXCEPT !.human_speaking_limit_ack_sent = TRUE],
          actions |-> Append(acts, Action("PLAY_ACK", "limit_exceeded"))]
  ELSE [state |-> s, actions |-> acts]

\* part 3 of reduce: the human speaking limit
HumanSpeakingLimit(s, acts, now) ==
  IF /\ Truthy(s.turn_start_time)
     /\ Truthy(s.human_speaking_limit_sec)
     /\ ~s.human_speaking_limit_ack_sent
     /\ now - s.turn_start_time > 1000 * s.human_speaking_limit_sec
    THEN LET s1 == [s EXCEPT !.human_speaking_limit_ack_sent = TRUE]
             a1 == Append(acts, Action("PLAY_ACK", "limit_exceeded"))
         IN IF s.state_machine = "PAUSING"
              THEN [state |-> [s1 EXCEPT !.turn_end_reason = "limit_exceeded",
                                         !.state_machine = "IDLE"],
                    actions |-> a1 \o <<Log("Processing Turn"),
                                        Action("PROCESS_TURN", "limit_exceeded")>>]
            ELSE [state |-> s1, actions |-> a1]
  ELSE [state |-> s, actions |-> acts]

\* mutant: only TICK and AUDIO_FRAME run the time checks
Reduce_ChecksOnTick(s, e) ==
  LET h == HandleEvent(s, e)
  IN IF h.returned \/ e.type \notin {"TICK", "AUDIO_FRAME"}
       THEN [state |-> h.state, actions |-> h.actions]
     ELSE LET m == StateMachineTransitions(h.state, h.actions, e.timestamp)
          IN HumanSpeakingLimit(m.state, m.actions, e.timestamp)

\* Reducer.reduce(state, event) -> (state, actions)
Reduce(s, e) ==
  LET h == HandleEvent(s, e)
  IN IF h.returned THEN [state |-> h.state, actions |-> h.actions]
     ELSE LET m == StateMachineTransitions(h.state, h.actions, e.timestamp)
          IN HumanSpeakingLimit(m.state, m.actions, e.timestamp)

\* the values of state_machine and of Action.type
MachineStates == {"IDLE", "SPEAKING", "PAUSING"}

ActionTypes ==
  { "LOG", "INTERRUPT_AI", "PROCESS_TURN", "PLAY_ACK", "SPEAK_SENTENCE",
    "LOG_TURN", "TRANSITION_PHASE" }

\* The operations of reduce that raise on an operand that is None or empty
\* (a subtraction or a comparison with None, a slice or a split of None,
\* pop(0) of an empty list): reduce(s, e) reaches one of them with an
\* operand that is not defined.  The lines are those of the operations.
PartialOperations(s, e) ==
  LET h == HandleEvent(s, e)
      m == StateMachineTransitions(h.state, h.actions, e.timestamp)
      checked == e.type = "AUDIO_FRAME" /\ CanListen(s) /\ s.is_ai_speaking
                   /\ s.authority # "ai"
  IN \* 166: event.timestamp - state.last_voice_time
     \/ /\ e.type = "VAD_SPEECH_STOP" /\ ~IsMicMuted(s)
        /\ Truthy(s.last_voice_time)
        /\ s.last_voice_time = None
     \* 446: now_ms - state.last_interrupt_time
     \/ /\ checked
        /\ s.last_interrupt_time = None
     \* 450: words.split()
     \/ /\ checked /\ CheckInterruption(s, e).reason # "debounce"
        /\ s.current_partial_transcript # <<>>
        /\ s.current_partial_transcript = <<>>
     \* 226: text[:30]
     \/ /\ e.type = "AI_SENTENCE_READY" /\ e.text # <<>>
        /\ e.text = <<>>
     \* 258: state.ai_speech_queue.pop(0)
     \/ /\ e.type = "AI_SPEECH_FINISHED" /\ s.ai_speech_queue # <<>>
        /\ Len(s.ai_speech_queue) = 0
     \* 365: (now - state.last_voice_time) * 1000
     \/ /\ ~h.returned /\ h.state.state_machine = "SPEAKING"
        /\ ~h.state.is_human_speaking /\ Truthy(h.state.last_voice_time)
        /\ h.state.last_voice_time = None
     \* 371: (now - state.last_voice_time) * 1000
     \/ /\ ~h.returned /\ h.state.state_machine = "PAUSING"
        /\ Truthy(h.state.last_voice_time)
        /\ h.state.last_voice_time = None
     \* 414, 415: now - state.turn_start_time, duration > the limit
     \/ /\ ~h.returned /\ Truthy(m.state.turn_start_time)
        /\ Truthy(m.state.human_speaking_limit_sec)
        /\ ~m.state.human_speaking_limit_ack_sent
        /\ (m.state.turn_start_time = None
              \/ m.state.human_speaking_limit_sec = None)

\* mutant: AI_SPEECH_FINISHED pops the queue without testing it
Raises_UnguardedPop(s, e) ==
  \/ PartialOperations(s, e)
  \/ e.type = "AI_SPEECH_FINISHED" /\ Len(s.ai_speech_queue) = 0

\* reduce(s, e) raises an exception
Raises(s, e) == PartialOperations(s, e)

(***************************************************************************)
(* The phase evaluator: PhaseTransition and PhaseProfile.find_transition   *)
(* of interactive_chat/config.py.  A list of signal names stands here as   *)
(* the set of its elements: find_transition only tests membership.         *)
(***************************************************************************)
\* Optional[str]: no phase
NoPhase == "None"

PhaseTransitionRule(from_phase, to_phase, trigger_signals, require_all) ==
  [from_phase |-> from_phase, to_phase |-> to_phase,
   trigger_signals |-> trigger_signals, require_all |-> require_all]

\* mutant: the phase the transition is declared for is not compared
RECURSIVE FindTransitionFrom_AnyPhase(_, _, _, _)
FindTransitionFrom_AnyPhase(transitions, i, current_phase, emitted_signals) ==
  IF i > Len(transitions) THEN NoPhase
  ELSE LET transition == transitions[i]
       IN IF transition.require_all
            THEN IF \A sig \in transition.trigger_signals : sig \in emitted_signals
                   THEN transition.to_phase
                 ELSE FindTransitionFrom_AnyPhase(transitions, i + 1,
                                                  current_phase, emitted_signals)
          ELSE IF \E sig \in transition.trigger_signals : sig \in emitted_signals
                   THEN transition.to_phase
               ELSE FindTransitionFrom_AnyPhase(transitions, i + 1,
                                                current_phase, emitted_signals)

\* the loop of find_transition, from the i-th transition on
RECURSIVE FindTransitionFrom(_, _, _, _)
FindTransitionFrom(transitions, i, current_phase, emitted_signals) ==
  IF i > Len(transitions) THEN NoPhase
  ELSE LET transition == transitions[i]
       IN IF transition.from_phase # current_phase
            THEN FindTransitionFrom(transitions, i + 1, current_phase,
                                    emitted_signals)
          ELSE IF transition.require_all
            THEN IF \A sig \in transition.trigger_signals : sig \in emitted_signals
                   THEN transition.to_phase
                 ELSE FindTransitionFrom(transitions, i + 1, current_phase,
                                         emitted_signals)
          ELSE IF \E sig \in transition.trigger_signals : sig \in emitted_signals
                   THEN transition.to_phase
               ELSE FindTransitionFrom(transitions, i + 1, current_phase,
                                       emitted_signals)

\* PhaseProfile.find_transition(current_phase, emitted_signals)
FindTransition(transitions, current_phase, emitted_signals) ==
  FindTransitionFrom(transitions, 1, current_phase, emitted_signals)

\* a phase with no outgoing transition is terminal
IsTerminal(transitions, phase) ==
  \A i \in 1..Len(transitions) : transitions[i].from_phase # phase

\* the completion signal designated for a phase
CompletionSignal(phase) == IF phase = "part1" THEN "more" ELSE "done"

\* the evaluation after a turn: the phase to request, if a transition is
\* found, and whether the session ends
CheckPhaseTransitions(transitions, current_phase, emitted_signals) ==
  LET next == FindTransition(transitions, current_phase, emitted_signals)
  IN [next |-> next,
      shutdown |-> /\ next = NoPhase
                   /\ IsTerminal(transitions, current_phase)
                   /\ CompletionSignal(current_phase) \in emitted_signals]

(***************************************************************************)
(* The signal bus: SignalRegistry of interactive_chat/core/signals.py and  *)
(* the emit_signal calls of reduce.  A callback is represented by whether  *)
(* it raises (an Exception); a call by the list it was registered in, its  *)
(* place there and the signal it received.                                 *)
(***************************************************************************)
Callback(raises) == [raises |-> raises]

Call(scope, i, name) == [scope |-> scope, index |-> i, signal |-> name]

Delivery(calls, raised) == [calls |-> calls, raised |-> raised]

\* SignalRegistry(): no listener
SignalRegistry == [global_listeners |-> <<>>, listeners |-> <<>>]

\* SignalRegistry.register(signal_name, callback)
Register(registry, signal_name, callback) ==
  IF signal_name \in DOMAIN registry.listeners
    THEN [registry EXCEPT !.listeners[signal_name] = Append(@, callback)]
  ELSE [registry EXCEPT !.listeners = (signal_name :> <<callback>>) @@ @]

\* SignalRegistry.register_all(callback)
RegisterAll(registry, callback) ==
  [registry EXCEPT !.global_listeners = Append(@, callback)]

\* mutant: no try around the callback; the first one that raises ends the loop
RECURSIVE CallListeners_Unguarded(_, _, _, _)
CallListeners_Unguarded(callbacks, scope, name, i) ==
  IF i > Len(callbacks) THEN Delivery(<<>>, FALSE)
  ELSE IF callbacks[i].raises THEN Delivery(<<Call(scope, i, name)>>, TRUE)
  ELSE LET rest == CallListeners_Unguarded(callbacks, scope, name, i + 1)
       IN Delivery(<<Call(scope, i, name)>> \o rest.calls, rest.raised)

\* `for callback in ...: try: callback(signal) except Exception: print(...)`
RECURSIVE CallListeners(_, _, _, _)
CallListeners(callbacks, scope, name, i) ==
  IF i > Len(callbacks) THEN Delivery(<<>>, FALSE)
  ELSE LET rest == CallListeners(callbacks, scope, name, i + 1)
       IN Delivery(<<Call(scope, i, name)>> \o rest.calls, rest.raised)

\* SignalRegistry.emit(signal): the global listeners, then those of the name
Emit(registry, name) ==
  LET g == CallListeners(registry.global_listeners, "*", name, 1)
  IN IF g.raised THEN g
     ELSE IF name \in DOMAIN registry.listeners
       THEN LET n == CallListeners(registry.listeners[name], name, name, 1)
            IN Delivery(g.calls \o n.calls, n.raised)
     ELSE g

\* the signals of the branch of the event type, in the order of emit_signal
BranchSignals(s, e) ==
  CASE e.type = "VAD_SPEECH_START" ->
         IF ~IsMicMuted(s) /\ s.state_machine \in {"IDLE", "PAUSING"}
           THEN <<"vad.speech_started">> ELSE <<>>
    [] e.type = "VAD_SPEECH_STOP" ->
         IF ~IsMicMuted(s) /\ Truthy(s.last_voice_time)
           THEN <<"vad.speech_ended">> ELSE <<>>
    [] e.type = "AUDIO_FRAME" ->
         IF \E i \in 1..Len(HandleEvent(s, e).actions) :
              HandleEvent(s, e).actions[i].type = "INTERRUPT_AI"
           THEN <<"conversation.interrupted">> ELSE <<>>
    [] e.type = "AI_SENTENCE_READY" ->
         IF e.text # <<>> /\ ~s.is_ai_speaking
           THEN <<"tts.speaking_started">> ELSE <<>>
    [] e.type = "AI_SPEECH_FINISHED" ->
         IF s.ai_speech_queue = <<>> THEN <<"tts.speaking_ended">> ELSE <<>>
    [] e.type = "RESET_TURN" ->
         IF Truthy(s.turn_start_time) /\ s.turn_final_transcript # <<>>
           THEN <<"analytics.turn_metrics_updated", "turn.completed">>
         ELSE <<>>
    [] OTHER -> <<>>

\* the signals of the time checks: turn.started with the end of a turn by
\* silence or safety timeout, speaking_limit_exceeded with the ack
CheckSignals(s, e) ==
  LET h == HandleEvent(s, e)
      m == StateMachineTransitions(h.state, <<>>, e.timestamp)
      l == HumanSpeakingLimit(m.state, <<>>, e.timestamp)
  IN IF h.returned THEN <<>>
     ELSE (IF \E i \in 1..Len(m.actions) : m.actions[i].type = "PROCESS_TURN"
             THEN <<"turn.started">> ELSE <<>>)
          \o (IF \E i \in 1..Len(l.actions) : l.actions[i].type = "PLAY_ACK"
                THEN <<"conversation.speaking_limit_exceeded">> ELSE <<>>)

\* the emit_signal calls of reduce(s, e), in order
ReducerSignals(s, e) == BranchSignals(s, e) \o CheckSignals(s, e)

\* the signals are emitted one after the other; an emit that raises ends
\* the walk, and with it the call of reduce
RECURSIVE EmitAll(_, _, _)
EmitAll(registry, names, i) ==
  IF i > Len(names) THEN Delivery(<<>>, FALSE)
  ELSE LET d == Emit(registry, names[i])
       IN IF d.raised THEN d
          ELSE LET rest == EmitAll(registry, names, i + 1)
               IN Delivery(d.calls \o rest.calls, rest.raised)

\* reduce(s, e) with the listeners of the registry: what it returns, whether
\* it returned at all, and the callbacks it called
ReduceEmitting(s, e, registry) ==
  LET d == EmitAll(registry, ReducerSignals(s, e), 1)
      r == Reduce(s, e)
  IN [returned |-> ~d.raised, state |-> r.state, actions |-> r.actions,
      calls |-> d.calls]

(***************************************************************************)
(* The reducer fed with any sequence of events in timestamp order.         *)
(***************************************************************************)
VARIABLES
  state,     \* the SystemState
  clock,     \* the timestamp of the event reduced last
  scenario,  \* a scripted run: its events, how many were reduced, and the
             \* reasons of the PROCESS_TURN actions it produced
  stream,    \* history of the sentence stream of a run
  session,   \* history of the turns of a run: the RESET_TURN events reduced
             \* and the LOG_TURN payloads they produced
  evaluator, \* the phase evaluator: the phase graph, the signals emitted
             \* and the outcome of find_transition
  registry,  \* the signal bus: the listeners registered
  engine,    \* the threads of the engine and what they share
  buffer     \* the event buffer of the API

\* the variables of the reducer and of its runs
reducerVars == <<state, clock, scenario, stream, session>>

\* the variables of the components around the reducer
components == <<evaluator, registry, engine, buffer>>

vars == <<state, clock, scenario, stream, session, components>>

\* no scripted run
NoScenario == [voiced |-> FALSE, script |-> <<>>, pc |-> 0, turns |-> <<>>]

\* no sentence seen yet
NoStream ==
  [ready |-> <<>>, spoken |-> <<>>, finished |-> 0, dropped |-> {},
   interrupted |-> FALSE, cut |-> 0]

\* no turn reset yet
NoSession ==
  [resets |-> 0, completed |-> 0, logged |-> <<>>, processed |-> 0,
   acks |-> 0]

\* no phase graph
NoEvaluator ==
  [transitions |-> <<>>, emitted |-> {}, evaluated |-> FALSE, next |-> "",
   shutdown |-> FALSE]

\* no engine thread
NoEngine == [pc |-> "none"]

\* no event buffer
NoBuffer == [events |-> <<>>]

\* the components are not part of the run
NoComponents ==
  /\ evaluator = NoEvaluator
  /\ registry = SignalRegistry
  /\ engine = NoEngine
  /\ buffer = NoBuffer

Init ==
  /\ \E p \in Profiles : state = SystemState(p)
  /\ clock = 0
  /\ scenario = NoScenario
  /\ stream = NoStream
  /\ session = NoSession
  /\ NoComponents

\* Reducer.reduce is applied to the next event e
Step(e) ==
  /\ e.timestamp >= clock
  /\ state' = Reduce(state, e).state
  /\ clock' = e.timestamp

\* the dispatcher pops e and calls Reducer.reduce
Dispatch(e) ==
  /\ Step(e)
  /\ UNCHANGED <<scenario, stream, session, components>>

\* the events of each kind with a timestamp in T
SpeechStartEvents(T) == { Event("VAD_SPEECH_START", t, FALSE, <<>>, "") : t \in T }
SpeechStopEvents(T) == { Event("VAD_SPEECH_STOP", t, FALSE, <<>>, "") : t \in T }
AudioFrameEvents(T) ==
  { Event("AUDIO_FRAME", t, sp, <<>>, "") : t \in T, sp \in BOOLEAN }
PartialTranscriptEvents(T) ==
  { Event("ASR_PARTIAL_TRANSCRIPT", t, FALSE, x, "") : t \in T, x \in Texts }
SentenceReadyEvents(T) ==
  { Event("AI_SENTENCE_READY", t, FALSE, x, "") : t \in T, x \in Sentences }
SpeechFinishedEvents(T) == { Event("AI_SPEECH_FINISHED", t, FALSE, <<>>, "") : t \in T }
TickEvents(T) == { Event("TICK", t, FALSE, <<>>, "") : t \in T }
ResetTurnEvents(T) == { Event("RESET_TURN", t, FALSE, <<>>, "") : t \in T }
PhaseTransitionEvents(T) ==
  { Event("PHASE_TRANSITION", t, FALSE, <<>>, ph) : t \in T, ph \in Phases }

SpeechStart == \E e \in SpeechStartEvents(Times) : Dispatch(e)

SpeechStop == \E e \in SpeechStopEvents(Times) : Dispatch(e)

\* the guards keep the buffer and the attempt counter within the bounds
AudioFrame ==
  /\ CanListen(state) => /\ Len(state.turn_audio_buffer) < MaxBuffer
                         /\ state.turn_interrupt_attempts < MaxAttempts
  /\ \E e \in AudioFrameEvents(Times) : Dispatch(e)

PartialTranscript ==
  /\ Len(state.turn_partial_transcripts) < MaxPartials
  /\ \E e \in PartialTranscriptEvents(Times) : Dispatch(e)

SentenceReady ==
  /\ Len(state.ai_speech_queue) < MaxQueue
  /\ \E e \in SentenceReadyEvents(Times) : Dispatch(e)

SpeechFinished == \E e \in SpeechFinishedEvents(Times) : Dispatch(e)

Tick == \E e \in TickEvents(Times) : Dispatch(e)

ResetTurn ==
  /\ state.turn_id < MaxTurns
  /\ \E e \in ResetTurnEvents(Times) : Dispatch(e)

PhaseTransition == \E e \in PhaseTransitionEvents(Times) : Dispatch(e)

Next ==
  \/ SpeechStart
  \/ SpeechStop
  \/ AudioFrame
  \/ PartialTranscript
  \/ SentenceReady
  \/ SpeechFinished
  \/ Tick
  \/ ResetTurn
  \/ PhaseTransition

Spec == Init /\ [][Next]_vars

\* the payloads of the actions of one type, in the order of emission
ActionReasons(acts, type) ==
  LET sel == SelectSeq(acts, LAMBDA a : a.type = type)
  IN [i \in 1..Len(sel) |-> sel[i].reason]

Range(seq) == { seq[i] : i \in 1..Len(seq) }

(***************************************************************************)
(* Scenario A: a complete user turn, as test_complete_user_turn_to_        *)
(* processing drives it, from a fresh state with authority human.  The run *)
(* is scripted: VAD_SPEECH_START at base, the voiced frames from base+0.1  *)
(* to base+0.55 s, VAD_SPEECH_STOP at base+0.6 s, TICK at base+1.3 s and   *)
(* at base+2.0 s.  The run without the voiced frames is the scenario as    *)
(* the specification words it.                                             *)
(***************************************************************************)
MaxBase == 7

\* base times of the scenario (ms)
Bases == { 250 * b : b \in 0..MaxBase }

\* the number of voiced frames the test sends
ScenarioFrames == 10

ScenarioA(base, voiced) ==
  << Event("VAD_SPEECH_START", base, FALSE, <<>>, "") >>
  \o (IF voiced
        THEN [i \in 1..ScenarioFrames |->
                Event("AUDIO_FRAME", base + 100 + 50 * (i - 1), TRUE, <<>>, "")]
      ELSE <<>>)
  \o << Event("VAD_SPEECH_STOP", base + 600, FALSE, <<>>, ""),
        Event("TICK", base + 1300, FALSE, <<>>, ""),
        Event("TICK", base + 2000, FALSE, <<>>, "") >>

InitScenarioA ==
  /\ state = SystemState(Profile("human", 50, None))
  /\ clock = 0
  /\ \E base \in Bases, voiced \in BOOLEAN :
       scenario = [voiced |-> voiced, script |-> ScenarioA(base, voiced),
                   pc |-> 0, turns |-> <<>>]
  /\ stream = NoStream
  /\ session = NoSession
  /\ NoComponents

\* the next event of the script is reduced
ScenarioStep ==
  /\ scenario.pc < Len(scenario.script)
  /\ LET e == scenario.script[scenario.pc + 1]
     IN /\ Step(e)
        /\ scenario' =
             [scenario EXCEPT
                !.pc = @ + 1,
                !.turns = @ \o ActionReasons(Reduce(state, e).actions,
                                             "PROCESS_TURN")]
  /\ UNCHANGED <<stream, session, components>>

NextScenarioA == ScenarioStep

SpecScenarioA == InitScenarioA /\ [][NextScenarioA]_vars

(***************************************************************************)
(* The sentence stream: the reducer fed with the events that bear on the   *)
(* AI speech (sentences, their playback, the human speech that interrupts  *)
(* or is muted, the reset of the turn), the sentences told apart by their  *)
(* texts, and                                                              *)
(* the history of the stream recorded: the non-empty texts that arrived,   *)
(* the texts of the SPEAK_SENTENCE actions, the number of                  *)
(* AI_SPEECH_FINISHED events, the sentences that were queued when          *)
(* INTERRUPT_AI was emitted, the number of sentences that had been handed *)
(* out when INTERRUPT_AI was last emitted.  The TTS worker reports         *)
(* AI_SPEECH_FINISHED once for a sentence it was given, in the order of    *)
(* the SPEAK_SENTENCE actions.                                             *)
(***************************************************************************)
StreamTimes == {0, 1000}

StreamSentences == { <<>>, <<"x">>, <<"y">>, <<"z">> }

StreamSentenceReadyEvents(T) ==
  { Event("AI_SENTENCE_READY", t, FALSE, x, "") : t \in T, x \in StreamSentences }

InitStream ==
  /\ \E p \in Profiles : state = SystemState(p)
  /\ clock = 0
  /\ scenario = NoScenario
  /\ stream = NoStream
  /\ session = NoSession
  /\ NoComponents

\* e is reduced and the history of the stream extended
Record(e) ==
  LET r == Reduce(state, e)
      interrupts == \E i \in 1..Len(r.actions) : r.actions[i].type = "INTERRUPT_AI"
  IN /\ Step(e)
     /\ stream' =
          [ready |-> IF e.type = "AI_SENTENCE_READY" /\ e.text # <<>>
                       THEN Append(stream.ready, e.text) ELSE stream.ready,
           spoken |-> stream.spoken \o ActionReasons(r.actions, "SPEAK_SENTENCE"),
           finished |-> IF e.type = "AI_SPEECH_FINISHED"
                          THEN stream.finished + 1 ELSE stream.finished,
           dropped |-> IF interrupts
                         THEN stream.dropped \cup Range(state.ai_speech_queue)
                       ELSE stream.dropped,
           interrupted |-> stream.interrupted \/ interrupts,
           cut |-> IF interrupts THEN Len(stream.spoken) ELSE stream.cut]
     /\ UNCHANGED <<scenario, session, components>>

\* a sentence arrives; a text is the text of one sentence only
StreamSentenceReady ==
  \E e \in StreamSentenceReadyEvents(StreamTimes) :
    /\ e.text \notin Range(stream.ready)
    /\ Record(e)

\* the TTS worker finished a sentence it was given
StreamSpeechFinished ==
  /\ stream.finished < Len(stream.spoken)
  /\ \E e \in SpeechFinishedEvents(StreamTimes) : Record(e)

StreamAudioFrame ==
  /\ CanListen(state) => /\ Len(state.turn_audio_buffer) < MaxBuffer
                         /\ state.turn_interrupt_attempts < MaxAttempts
  /\ \E e \in AudioFrameEvents(StreamTimes) : Record(e)

StreamSpeechStart == \E e \in SpeechStartEvents(StreamTimes) : Record(e)

StreamPartialTranscript ==
  /\ Len(state.turn_partial_transcripts) < MaxPartials
  /\ \E e \in PartialTranscriptEvents(StreamTimes) : Record(e)

StreamResetTurn ==
  /\ state.turn_id < MaxTurns
  /\ \E e \in ResetTurnEvents(StreamTimes) : Record(e)

NextStream ==
  \/ StreamSentenceReady
  \/ StreamSpeechFinished
  \/ StreamAudioFrame
  \/ StreamSpeechStart
  \/ StreamPartialTranscript
  \/ StreamResetTurn

SpecStream == InitStream /\ [][NextStream]_vars

(***************************************************************************)
(* The speaking limit: the reducer with human_speaking_limit_sec = 5, as   *)
(* in Scenario D, fed with the events of a human turn at timestamps around *)
(* the limit: a turn that starts at 1.0 s crosses the limit after 6.0 s.   *)
(***************************************************************************)
ScenarioLimitSec == 5

LimitTimes == {1000, 5300, 5950, 6200, 7000, 7500}

LimitProfiles ==
  { Profile("human", 50, ScenarioLimitSec), Profile("default", 50, ScenarioLimitSec) }

InitLimit ==
  /\ \E p \in LimitProfiles : state = SystemState(p)
  /\ clock = 0
  /\ scenario = NoScenario
  /\ stream = NoStream
  /\ session = NoSession
  /\ NoComponents

LimitSpeechStart == \E e \in SpeechStartEvents(LimitTimes) : Dispatch(e)

LimitSpeechStop == \E e \in SpeechStopEvents(LimitTimes) : Dispatch(e)

LimitAudioFrame ==
  /\ Len(state.turn_audio_buffer) < MaxBuffer
  /\ \E e \in AudioFrameEvents(LimitTimes) : Dispatch(e)

LimitTick == \E e \in TickEvents(LimitTimes) : Dispatch(e)

LimitResetTurn ==
  /\ state.turn_id < MaxTurns
  /\ \E e \in ResetTurnEvents(LimitTimes) : Dispatch(e)

NextLimit ==
  \/ LimitSpeechStart
  \/ LimitSpeechStop
  \/ LimitAudioFrame
  \/ LimitTick
  \/ LimitResetTurn

SpecLimit == InitLimit /\ [][NextLimit]_vars

(***************************************************************************)
(* The PROCESS_TURN actions of a turn: the reducer fed with speech, frame  *)
(* and tick events between RESET_TURN events, the dispatcher counting the  *)
(* PROCESS_TURN and the PLAY_ACK actions emitted since the last RESET_TURN *)
(* (for the current turn_id).                                              *)
(***************************************************************************)
ProcessTurnCount(acts) ==
  Cardinality({ i \in 1..Len(acts) : acts[i].type = "PROCESS_TURN" })

PlayAckCount(acts) ==
  Cardinality({ i \in 1..Len(acts) : acts[i].type = "PLAY_ACK" })

SpanDispatch(e) ==
  /\ Step(e)
  /\ session' =
       [session EXCEPT
          !.processed = (IF e.type = "RESET_TURN" THEN 0 ELSE @)
                          + ProcessTurnCount(Reduce(state, e).actions),
          !.acks = (IF e.type = "RESET_TURN" THEN 0 ELSE @)
                     + PlayAckCount(Reduce(state, e).actions)]
  /\ UNCHANGED <<scenario, stream, components>>

SpanSpeechStart == \E e \in SpeechStartEvents(LimitTimes) : SpanDispatch(e)

SpanSpeechStop == \E e \in SpeechStopEvents(LimitTimes) : SpanDispatch(e)

SpanAudioFrame ==
  /\ Len(state.turn_audio_buffer) < MaxBuffer
  /\ \E e \in AudioFrameEvents(LimitTimes) : SpanDispatch(e)

SpanTick == \E e \in TickEvents(LimitTimes) : SpanDispatch(e)

SpanResetTurn ==
  /\ state.turn_id < MaxTurns
  /\ \E e \in ResetTurnEvents(LimitTimes) : SpanDispatch(e)

NextSpan ==
  \/ SpanSpeechStart
  \/ SpanSpeechStop
  \/ SpanAudioFrame
  \/ SpanTick
  \/ SpanResetTurn

SpecSpan == InitLimit /\ [][NextSpan]_vars

(***************************************************************************)
(* The acknowledgements of a turn: the same run from a session with the    *)
(* speaking limit of Scenario D or with no limit configured.               *)
(***************************************************************************)
AckProfiles == LimitProfiles \cup { Profile("default", 50, None) }

InitAck ==
  /\ \E p \in AckProfiles : state = SystemState(p)
  /\ clock = 0
  /\ scenario = NoScenario
  /\ stream = NoStream
  /\ session = NoSession
  /\ NoComponents

SpecAck == InitAck /\ [][NextSpan]_vars

(***************************************************************************)
(* The turns of a session: the reducer fed with the events of a turn, the  *)
(* turn-processing worker that writes the transcripts and the latencies of *)
(* the turn into the state before RESET_TURN (as the end-to-end tests do), *)
(* and the history of the resets.                                          *)
(***************************************************************************)
MaxResets == 2

TurnTimes == {0, 1000, 3000}

\* what the worker writes: nothing heard, or a transcript and its metrics
WorkerResults ==
  { [final |-> <<>>, ai |-> <<>>, transcription_ms |-> 0,
     llm_generation_ms |-> 0, total_latency_ms |-> 0, confidence |-> 100],
    [final |-> <<"a">>, ai |-> <<"x">>, transcription_ms |-> 120,
     llm_generation_ms |-> 300, total_latency_ms |-> 420, confidence |-> 90] }

\* the turn had content: turn_start_time is set and the transcript is not empty
HasContent(s) == s.turn_start_time # None /\ s.turn_final_transcript # <<>>

InitTurn ==
  /\ state = SystemState(Profile("default", 100, None))
  /\ clock = 0
  /\ scenario = NoScenario
  /\ stream = NoStream
  /\ session = NoSession
  /\ NoComponents

\* the dispatcher pops e and calls Reducer.reduce; the history keeps the
\* resets and the LOG_TURN payloads
TurnDispatch(e) ==
  /\ Step(e)
  /\ session' =
       [resets |-> session.resets + (IF e.type = "RESET_TURN" THEN 1 ELSE 0),
        completed |-> session.completed
                        + (IF e.type = "RESET_TURN" /\ HasContent(state)
                             THEN 1 ELSE 0),
        logged |-> session.logged
                     \o ActionReasons(Reduce(state, e).actions, "LOG_TURN"),
        processed |-> session.processed,
        acks |-> session.acks]
  /\ UNCHANGED <<scenario, stream, components>>

TurnSpeechStart == \E e \in SpeechStartEvents(TurnTimes) : TurnDispatch(e)

TurnSpeechStop == \E e \in SpeechStopEvents(TurnTimes) : TurnDispatch(e)

TurnAudioFrame ==
  /\ CanListen(state) => /\ Len(state.turn_audio_buffer) < MaxBuffer
                         /\ state.turn_interrupt_attempts < MaxAttempts
  /\ \E e \in AudioFrameEvents(TurnTimes) : TurnDispatch(e)

TurnSentenceReady ==
  /\ Len(state.ai_speech_queue) < MaxQueue
  /\ \E e \in StreamSentenceReadyEvents(TurnTimes) : TurnDispatch(e)

TurnTick == \E e \in TickEvents(TurnTimes) : TurnDispatch(e)

\* the worker stores the outcome of the turn in the state
TurnProcessed ==
  /\ \E w \in WorkerResults :
       state' = [state EXCEPT !.turn_final_transcript = w.final,
                              !.turn_ai_transcript = w.ai,
                              !.turn_transcription_ms = w.transcription_ms,
                              !.turn_llm_generation_ms = w.llm_generation_ms,
                              !.turn_total_latency_ms = w.total_latency_ms,
                              !.turn_confidence_score = w.confidence]
  /\ UNCHANGED <<clock, scenario, stream, session, components>>

TurnResetTurn ==
  /\ session.resets < MaxResets
  /\ \E e \in ResetTurnEvents(TurnTimes) : TurnDispatch(e)

NextTurn ==
  \/ TurnSpeechStart
  \/ TurnSpeechStop
  \/ TurnAudioFrame
  \/ TurnSentenceReady
  \/ TurnTick
  \/ TurnProcessed
  \/ TurnResetTurn

SpecTurn == InitTurn /\ [][NextTurn]_vars

(***************************************************************************)
(* Every event kind in every machine state: the reducer fed with any       *)
(* sequence of events, of every kind and payload, of a short run, from     *)
(* every configuration.                                                    *)
(***************************************************************************)
TotalRunTimes == {400, 2900}

InitTotal ==
  /\ \E p \in Profiles : state = SystemState(p)
  /\ clock = 0
  /\ scenario = NoScenario
  /\ stream = NoStream
  /\ session = NoSession
  /\ NoComponents

TotalSpeechStart == \E e \in SpeechStartEvents(TotalRunTimes) : Dispatch(e)

TotalSpeechStop == \E e \in SpeechStopEvents(TotalRunTimes) : Dispatch(e)

TotalAudioFrame ==
  /\ CanListen(state) => /\ Len(state.turn_audio_buffer) < MaxBuffer
                         /\ state.turn_interrupt_attempts < MaxAttempts
  /\ \E e \in AudioFrameEvents(TotalRunTimes) : Dispatch(e)

TotalPartialTranscript ==
  /\ Len(state.turn_partial_transcripts) < MaxPartials
  /\ \E e \in PartialTranscriptEvents(TotalRunTimes) : Dispatch(e)

TotalSentenceReady ==
  /\ Len(state.ai_speech_queue) < MaxQueue
  /\ \E e \in SentenceReadyEvents(TotalRunTimes) : Dispatch(e)

TotalSpeechFinished == \E e \in SpeechFinishedEvents(TotalRunTimes) : Dispatch(e)

TotalTick == \E e \in TickEvents(TotalRunTimes) : Dispatch(e)

TotalResetTurn ==
  /\ state.turn_id < MaxTurns
  /\ \E e \in ResetTurnEvents(TotalRunTimes) : Dispatch(e)

TotalPhaseTransition ==
  \E e \in PhaseTransitionEvents(TotalRunTimes) : Dispatch(e)

NextTotal ==
  \/ TotalSpeechStart
  \/ TotalSpeechStop
  \/ TotalAudioFrame
  \/ TotalPartialTranscript
  \/ TotalSentenceReady
  \/ TotalSpeechFinished
  \/ TotalTick
  \/ TotalResetTurn
  \/ TotalPhaseTransition

SpecTotal == InitTotal /\ [][NextTotal]_vars

(***************************************************************************)
(* The phases of a session: signals are emitted, the dispatcher evaluates  *)
(* the phase graph with find_transition and raises PHASE_TRANSITION for    *)
(* the phase found, which the reducer applies.                             *)
(***************************************************************************)
MaxTransitions == 2

PhaseIds == {"greeting", "part1", "closing"}

SignalNames == {"done", "more"}

\* the transitions a phase graph can declare
PhaseTransitionRules ==
  { PhaseTransitionRule(f, t, sigs, all) :
      f \in {"greeting", "part1"}, t \in {"part1", "closing"},
      sigs \in SUBSET SignalNames, all \in BOOLEAN }

\* the phase graphs: the lists of at most MaxTransitions transitions
PhaseGraphs ==
  UNION { [1..n -> PhaseTransitionRules] : n \in 0..MaxTransitions }

InitPhase ==
  /\ state = [SystemState(Profile("ai", 30, None)) EXCEPT
                !.current_phase_id = "greeting"]
  /\ clock = 0
  /\ scenario = NoScenario
  /\ stream = NoStream
  /\ session = NoSession
  /\ \E g \in PhaseGraphs :
       evaluator = [transitions |-> g, emitted |-> {}, evaluated |-> FALSE,
                    next |-> NoPhase, shutdown |-> FALSE]
  /\ registry = SignalRegistry
  /\ engine = NoEngine
  /\ buffer = NoBuffer

\* the response of a turn emits a signal
PhaseEmit ==
  /\ ~evaluator.shutdown
  /\ \E sig \in SignalNames :
       /\ sig \notin evaluator.emitted
       /\ evaluator' = [evaluator EXCEPT !.emitted = @ \cup {sig},
                                         !.evaluated = FALSE,
                                         !.next = NoPhase]
  /\ UNCHANGED <<reducerVars, registry, engine, buffer>>

\* the dispatcher evaluates the phase graph after the turn: the transition
\* found is requested; without one, a terminal phase whose completion
\* signal was emitted ends the session
PhaseEvaluate ==
  /\ ~evaluator.evaluated
  /\ LET c == CheckPhaseTransitions(evaluator.transitions,
                                    state.current_phase_id, evaluator.emitted)
     IN evaluator' = [evaluator EXCEPT !.evaluated = TRUE,
                                       !.next = c.next,
                                       !.shutdown = c.shutdown]
  /\ UNCHANGED <<reducerVars, registry, engine, buffer>>

\* the dispatcher raises PHASE_TRANSITION for the phase found; the reducer
\* applies it and the emitted signals are forgotten
PhaseRequest ==
  /\ evaluator.evaluated /\ evaluator.next # NoPhase
  /\ Step(Event("PHASE_TRANSITION", clock, FALSE, <<>>, evaluator.next))
  /\ evaluator' = [evaluator EXCEPT !.emitted = {}, !.evaluated = FALSE,
                                    !.next = NoPhase]
  /\ UNCHANGED <<scenario, stream, session, registry, engine, buffer>>

NextPhase ==
  \/ PhaseEmit
  \/ PhaseEvaluate
  \/ PhaseRequest

SpecPhase == InitPhase /\ [][NextPhase]_vars

(***************************************************************************)
(* The reducer with listeners on the signal bus: listeners are registered, *)
(* for every signal or for one, some of them raising, before the first     *)
(* timestamp has passed; the dispatcher reduces events of every kind and   *)
(* goes on when reduce returns.                                            *)
(***************************************************************************)
MaxListeners == 2

\* the signals listeners are registered for by name
ListenedSignals == {"conversation.interrupted", "vad.speech_started"}

ListenerCount(r) ==
  Len(r.global_listeners)
    + (IF "conversation.interrupted" \in DOMAIN r.listeners
         THEN Len(r.listeners["conversation.interrupted"]) ELSE 0)
    + (IF "vad.speech_started" \in DOMAIN r.listeners
         THEN Len(r.listeners["vad.speech_started"]) ELSE 0)

BusEvents ==
  SpeechStartEvents(TotalRunTimes) \cup SpeechStopEvents(TotalRunTimes)
    \cup { e \in AudioFrameEvents(TotalRunTimes) :
             CanListen(state) => /\ Len(state.turn_audio_buffer) < MaxBuffer
                                 /\ state.turn_interrupt_attempts < MaxAttempts }
    \cup { e \in SentenceReadyEvents(TotalRunTimes) :
             Len(state.ai_speech_queue) < MaxQueue }
    \cup SpeechFinishedEvents(TotalRunTimes) \cup TickEvents(TotalRunTimes)
    \cup { e \in ResetTurnEvents(TotalRunTimes) : state.turn_id < MaxTurns }

InitBus ==
  /\ state = SystemState(Profile("default", 60, 1))
  /\ clock = 0
  /\ scenario = NoScenario
  /\ stream = NoStream
  /\ session = NoSession
  /\ evaluator = NoEvaluator
  /\ registry = SignalRegistry
  /\ engine = NoEngine
  /\ buffer = NoBuffer

\* registry.register(name, callback)
BusRegister ==
  /\ clock = 0
  /\ ListenerCount(registry) < MaxListeners
  /\ \E name \in ListenedSignals, raises \in BOOLEAN :
       registry' = Register(registry, name, Callback(raises))
  /\ UNCHANGED <<reducerVars, evaluator, engine, buffer>>

\* registry.register_all(callback)
BusRegisterAll ==
  /\ clock = 0
  /\ ListenerCount(registry) < MaxListeners
  /\ \E raises \in BOOLEAN :
       registry' = RegisterAll(registry, Callback(raises))
  /\ UNCHANGED <<reducerVars, evaluator, engine, buffer>>

\* the dispatcher calls reduce, which emits its signals to the listeners
BusReduce ==
  /\ \E e \in BusEvents :
       LET r == ReduceEmitting(state, e, registry)
       IN /\ e.timestamp >= clock
          /\ r.returned
          /\ state' = r.state
          /\ clock' = e.timestamp
  /\ UNCHANGED <<scenario, stream, session, components>>

\* the worker stores the transcript of the turn in the state
BusProcessed ==
  /\ state.turn_final_transcript = <<>>
  /\ state' = [state EXCEPT !.turn_final_transcript = <<"a">>]
  /\ UNCHANGED <<clock, scenario, stream, session, components>>

NextBus ==
  \/ BusRegister
  \/ BusRegisterAll
  \/ BusReduce
  \/ BusProcessed

SpecBus == InitBus /\ [][NextBus]_vars

(***************************************************************************)
(* The threads of ConversationEngine (interactive_chat/main.py): the main  *)
(* loop run(), which buffers frames, sets the interrupt event and hands a  *)
(* turn to a _process_turn thread; that thread, which transcribes the      *)
(* frames and queues the sentences of the response; and _tts_worker, which *)
(* takes the sentences from the queue and speaks them.  They share         *)
(* turn_audio, response_queue, human_interrupt_event and ai_speaking, and  *)
(* every step between two accesses of these is one action.  The authority  *)
(* is human or default (with ai no interruption is accepted).              *)
(***************************************************************************)
MaxFrames == 3
MaxEngineTurns == 2
SentencesPerResponse == 2
ChunksPerSentence == 2

Sentence(response, n) == [response |-> response, n |-> n]

NoSentence == Sentence(0, 0)

\* no _process_turn thread was started
NoWorker ==
  [pc |-> "none", response |-> 0, turn_audio_frames |-> <<>>,
   handed |-> <<>>, transcribed |-> FALSE, processed |-> <<>>, left |-> 0]

\* ConversationEngine.__init__; handed, cancelled, resurrected, interrupted
\* and late are history: the live buffer at the hand-over of the turn, the
\* responses the interrupt was set for, whether a sentence of one of them
\* started to play after that, whether the interrupt was set during the
\* running speak call and the chunks written after it
ConversationEngine(authority, tts_mode) ==
  [authority |-> authority, tts_mode |-> tts_mode,
   turn_audio |-> <<>>, captured |-> 0, turn_counter |-> 0, run |-> "loop",
   worker |-> NoWorker, response_queue |-> <<>>,
   human_interrupt_event |-> FALSE, ai_speaking |-> FALSE,
   tts |-> [pc |-> "wait", text |-> NoSentence, interrupt_event |-> FALSE,
            chunks |-> 0, interrupted |-> FALSE, late |-> 0],
   cancelled |-> {}, resurrected |-> FALSE]

\* list(self.turn_audio): a copy of the live buffer
Snapshot(turn_audio) == turn_audio

\* mutant: the parameter is the live buffer
TurnAudioFrames_Live(en) == en.turn_audio

\* the parameter turn_audio_frames of _process_turn
TurnAudioFrames(en) == en.worker.turn_audio_frames

\* the responses with a sentence taken by the TTS worker or waiting in the queue
InFlight(en) ==
  (IF en.tts.pc \in {"got", "speaking"} THEN {en.tts.text.response} ELSE {})
    \cup { en.response_queue[i].response : i \in 1..Len(en.response_queue) }

InitEngine ==
  /\ state = SystemState(Profile("human", 50, None))
  /\ clock = 0
  /\ scenario = NoScenario
  /\ stream = NoStream
  /\ session = NoSession
  /\ evaluator = NoEvaluator
  /\ registry = SignalRegistry
  /\ buffer = NoBuffer
  /\ \E authority \in {"human", "default"}, tts_mode \in {"pocket", "powershell"} :
       engine = ConversationEngine(authority, tts_mode)

\* run(): a frame is buffered
EngineFrame ==
  /\ engine.run = "loop"
  /\ engine.captured < MaxFrames
  /\ engine' = [engine EXCEPT !.turn_audio = Append(@, engine.captured + 1),
                              !.captured = @ + 1]
  /\ UNCHANGED <<reducerVars, evaluator, registry, buffer>>

\* run(): the buffers are cleared after the acknowledgment of the limit
EngineLimitAck ==
  /\ engine.run = "loop"
  /\ engine.turn_audio # <<>>
  /\ engine' = [engine EXCEPT !.turn_audio = <<>>]
  /\ UNCHANGED <<reducerVars, evaluator, registry, buffer>>

\* run(): should_interrupt accepts (the AI is speaking) and the event is
\* not set: human_interrupt_event.set()
EngineInterrupt ==
  /\ engine.run = "loop"
  /\ engine.ai_speaking
  /\ ~engine.human_interrupt_event
  /\ engine' = [engine EXCEPT
                  !.human_interrupt_event = TRUE,
                  !.cancelled = @ \cup InFlight(engine),
                  !.tts.interrupted = @ \/ engine.tts.pc = "speaking"]
  /\ UNCHANGED <<reducerVars, evaluator, registry, buffer>>

\* run(): the turn ends; the frames are copied, the live buffer is cleared
\* and the _process_turn thread is started
EngineEndTurn ==
  /\ engine.run = "loop"
  /\ engine.worker.pc \in {"none", "done"}
  /\ engine.turn_counter < MaxEngineTurns
  /\ engine' = [engine EXCEPT
                  !.worker = [pc |-> "start",
                              response |-> engine.turn_counter + 1,
                              turn_audio_frames |-> Snapshot(engine.turn_audio),
                              handed |-> engine.turn_audio,
                              transcribed |-> FALSE, processed |-> <<>>,
                              left |-> 0],
                  !.turn_audio = <<>>,
                  !.run = "reset"]
  /\ UNCHANGED <<reducerVars, evaluator, registry, buffer>>

\* run(): the reset after the thread was started
EngineReset ==
  /\ engine.run = "reset"
  /\ engine' = [engine EXCEPT !.turn_counter = @ + 1,
                              !.human_interrupt_event = FALSE,
                              !.run = "loop"]
  /\ UNCHANGED <<reducerVars, evaluator, registry, buffer>>

\* _process_turn: `if not turn_audio_frames: return`
WorkerStart ==
  /\ engine.worker.pc = "start"
  /\ engine' = [engine EXCEPT
                  !.worker.pc = IF TurnAudioFrames(engine) = <<>>
                                  THEN "done" ELSE "transcribe"]
  /\ UNCHANGED <<reducerVars, evaluator, registry, buffer>>

\* _process_turn: the frames are transcribed; without a word, or with the
\* interrupt event set, the event is cleared and the thread returns
WorkerTranscribe ==
  /\ engine.worker.pc = "transcribe"
  /\ \E words \in BOOLEAN :
       engine' = [engine EXCEPT
                    !.worker.transcribed = TRUE,
                    !.worker.processed = TurnAudioFrames(engine),
                    !.worker.pc = IF words /\ ~engine.human_interrupt_event
                                    THEN "respond" ELSE "done",
                    !.human_interrupt_event =
                       IF words /\ ~engine.human_interrupt_event
                         THEN @ ELSE FALSE]
  /\ UNCHANGED <<reducerVars, evaluator, registry, buffer>>

\* _process_turn: with authority default and the event set the queue is
\* replaced by "Go ahead."; otherwise the generation starts
WorkerRespond ==
  /\ engine.worker.pc = "respond"
  /\ engine' =
       IF engine.authority = "default" /\ engine.human_interrupt_event
         THEN [engine EXCEPT
                 !.response_queue =
                    << Sentence(MaxEngineTurns + engine.worker.response, 1) >>,
                 !.ai_speaking = TRUE,
                 !.human_interrupt_event = FALSE,
                 !.worker.pc = "done"]
       ELSE [engine EXCEPT !.worker.pc = "generating",
                           !.worker.left = SentencesPerResponse]
  /\ UNCHANGED <<reducerVars, evaluator, registry, buffer>>

\* _process_turn: a token ends a sentence; with the event set the event is
\* cleared and the thread returns, otherwise the sentence is queued
WorkerToken ==
  /\ engine.worker.pc = "generating"
  /\ engine.worker.left > 0
  /\ engine' =
       IF engine.human_interrupt_event
         THEN [engine EXCEPT !.human_interrupt_event = FALSE,
                             !.worker.pc = "done"]
       ELSE [engine EXCEPT
               !.ai_speaking = TRUE,
               !.response_queue =
                  Append(@, Sentence(engine.worker.response,
                                     SentencesPerResponse - engine.worker.left + 1)),
               !.worker.left = @ - 1]
  /\ UNCHANGED <<reducerVars, evaluator, registry, buffer>>

\* _process_turn: the response is complete
WorkerFinish ==
  /\ engine.worker.pc = "generating"
  /\ engine.worker.left = 0
  /\ engine' = [engine EXCEPT !.human_interrupt_event = FALSE,
                              !.worker.pc = "done"]
  /\ UNCHANGED <<reducerVars, evaluator, registry, buffer>>

\* _tts_worker: response_queue.get
TtsGet ==
  /\ engine.tts.pc = "wait"
  /\ engine.response_queue # <<>>
  /\ engine' = [engine EXCEPT !.tts.pc = "got",
                              !.tts.text = Head(engine.response_queue),
                              !.response_queue = Tail(@)]
  /\ UNCHANGED <<reducerVars, evaluator, registry, buffer>>

\* _tts_worker: with the event set the queue is cleared and the text is
\* dropped; otherwise speak is called, with the event if the authority is
\* human
TtsCheck ==
  /\ engine.tts.pc = "got"
  /\ engine' =
       IF engine.human_interrupt_event
         THEN [engine EXCEPT !.response_queue = <<>>,
                             !.tts.pc = "wait",
                             !.tts.text = NoSentence]
       ELSE [engine EXCEPT
               !.ai_speaking = TRUE,
               !.tts.pc = "speaking",
               !.tts.interrupt_event = engine.authority = "human",
               !.tts.chunks = 0,
               !.tts.interrupted = FALSE,
               !.tts.late = 0,
               !.resurrected = @ \/ engine.tts.text.response \in engine.cancelled]
  /\ UNCHANGED <<reducerVars, evaluator, registry, buffer>>

\* speak returns before the next chunk: PocketTTS, when it was given the
\* event and the event is set; PowerShellTTS never looks at the event
StopsSpeaking(en) ==
  /\ en.tts_mode = "pocket"
  /\ en.tts.interrupt_event
  /\ en.human_interrupt_event

\* tts.speak: the next 100 ms of the sentence are played, or speak returns
TtsSpeak ==
  /\ engine.tts.pc = "speaking"
  /\ engine' =
       IF StopsSpeaking(engine) \/ engine.tts.chunks = ChunksPerSentence
         THEN [engine EXCEPT !.tts.pc = "finish"]
       ELSE [engine EXCEPT
               !.tts.chunks = @ + 1,
               !.tts.late = IF engine.tts.interrupted THEN @ + 1 ELSE @]
  /\ UNCHANGED <<reducerVars, evaluator, registry, buffer>>

\* _tts_worker: finally: ai_speaking = False
TtsFinish ==
  /\ engine.tts.pc = "finish"
  /\ engine' = [engine EXCEPT !.ai_speaking = FALSE,
                              !.tts.pc = "wait",
                              !.tts.text = NoSentence]
  /\ UNCHANGED <<reducerVars, evaluator, registry, buffer>>

NextEngine ==
  \/ EngineFrame
  \/ EngineLimitAck
  \/ EngineInterrupt
  \/ EngineEndTurn
  \/ EngineReset
  \/ WorkerStart
  \/ WorkerTranscribe
  \/ WorkerRespond
  \/ WorkerToken
  \/ WorkerFinish
  \/ TtsGet
  \/ TtsCheck
  \/ TtsSpeak
  \/ TtsFinish

SpecEngine == InitEngine /\ [][NextEngine]_vars

(***************************************************************************)
(* EventBuffer of interactive_chat/api/event_buffer.py: a deque with       *)
(* maxlen = max_size and the set of the message ids remembered.  accepted  *)
(* and result are history: the events add_event returned True for, in      *)
(* order, and what the last call returned.                                 *)
(***************************************************************************)
MaxSize == 2
MaxAdds == 4

MessageIds == {"m1", "m2", "m3"}

WSEventMessage(message_id, timestamp) ==
  [message_id |-> message_id, timestamp |-> timestamp]

WSEventMessages ==
  { WSEventMessage(id, t) : id \in MessageIds, t \in {1, 2} }

\* EventBuffer(max_size)
EventBuffer(max_size) ==
  [max_size |-> max_size, events |-> <<>>, event_ids |-> {},
   last_event_timestamp |-> 0, accepted |-> <<>>, result |-> FALSE,
   calls |-> 0]

\* deque.append with maxlen: a full deque drops its oldest element
DequeAppend(events, event, maxlen) ==
  IF maxlen = 0 THEN <<>>
  ELSE IF Len(events) = maxlen THEN Append(Tail(events), event)
  ELSE Append(events, event)

\* mutant: the ids of the events dropped are kept
CleanupOldIds_Keep(events, event_ids) == event_ids

\* EventBuffer._cleanup_old_ids
CleanupOldIds(events, event_ids) ==
  event_ids \cap { events[i].message_id : i \in 1..Len(events) }

\* EventBuffer.add_event(event)
AddEvent(b, event) ==
  IF event.message_id \in b.event_ids
    THEN [b EXCEPT !.result = FALSE, !.calls = @ + 1]
  ELSE LET events == DequeAppend(b.events, event, b.max_size)
           ids == b.event_ids \cup {event.message_id}
       IN [b EXCEPT
             !.events = events,
             !.event_ids = IF Len(events) = b.max_size
                             THEN CleanupOldIds(events, ids) ELSE ids,
             !.last_event_timestamp = event.timestamp,
             !.accepted = Append(@, event),
             !.result = TRUE,
             !.calls = @ + 1]

InitBuffer ==
  /\ state = SystemState(Profile("human", 50, None))
  /\ clock = 0
  /\ scenario = NoScenario
  /\ stream = NoStream
  /\ session = NoSession
  /\ evaluator = NoEvaluator
  /\ registry = SignalRegistry
  /\ engine = NoEngine
  /\ \E max_size \in 0..MaxSize : buffer = EventBuffer(max_size)

\* buf.add_event(event)
BufferAddEvent ==
  /\ buffer.calls < MaxAdds
  /\ \E event \in WSEventMessages : buffer' = AddEvent(buffer, event)
  /\ UNCHANGED <<reducerVars, evaluator, registry, engine>>

NextBuffer == BufferAddEvent

SpecBuffer == InitBuffer /\ [][NextBuffer]_vars

(***************************************************************************)
(* What the claims speak about: the result of reducing, in a reachable     *)
(* state, any event that can come next.                                    *)
(***************************************************************************)
\* the timestamps of a next event: those of the runs and some close ones
Offsets == {0, 100, 250, 300, 700}

NextTimes == { t \in Times \cup { clock + d : d \in Offsets } : t >= clock }

Events ==
  SpeechStartEvents(NextTimes) \cup SpeechStopEvents(NextTimes)
    \cup AudioFrameEvents(NextTimes) \cup PartialTranscriptEvents(NextTimes)
    \cup SentenceReadyEvents(NextTimes) \cup SpeechFinishedEvents(NextTimes)
    \cup TickEvents(NextTimes) \cup ResetTurnEvents(NextTimes)
    \cup PhaseTransitionEvents(NextTimes)

HasAction(acts, type) == \E i \in 1..Len(acts) : acts[i].type = type

CountActions(acts, type) == Cardinality({ i \in 1..Len(acts) : acts[i].type = type })

\* "mic mute" as the specification words it
Muted == state.authority = "ai" /\ state.is_ai_speaking

\* the three fields the mic-mute invariant is about
SameHumanInput(s, t) ==
  /\ t.turn_audio_buffer = s.turn_audio_buffer
  /\ t.is_human_speaking = s.is_human_speaking
  /\ t.last_voice_time = s.last_voice_time

(***************************************************************************)
(* C1 as stated: while authority = ai and the AI is speaking, no event of  *)
(* any kind changes turn_audio_buffer, is_human_speaking or                *)
(* last_voice_time.  RESET_TURN refutes it: it clears the buffer and       *)
(* last_voice_time whatever the mute.                                      *)
(***************************************************************************)
C1_MicMuteEveryEvent ==
  Muted => \A e \in Events : SameHumanInput(state, Reduce(state, e).state)

(***************************************************************************)
(* C1 amended: while authority = ai and the AI is speaking, no event other *)
(* than RESET_TURN changes turn_audio_buffer, is_human_speaking or         *)
(* last_voice_time.                                                        *)
(***************************************************************************)
C1_MicMuteButReset ==
  Muted => \A e \in Events :
             e.type # "RESET_TURN" => SameHumanInput(state, Reduce(state, e).state)

\* a muted state with an open human turn, in which a speech frame arrives
C1_Witness ==
  /\ Muted
  /\ state.is_human_speaking
  /\ state.turn_audio_buffer # <<>>
  /\ \E e \in AudioFrameEvents(NextTimes) :
       e.is_speech /\ SameHumanInput(state, Reduce(state, e).state)

(***************************************************************************)
(* C2 as stated: while muted, a VAD_SPEECH_START, a VAD_SPEECH_STOP or an  *)
(* AUDIO_FRAME changes no field of the state and returns no action.  A     *)
(* muted AUDIO_FRAME refutes it: it skips the listening part but still     *)
(* runs the time-driven parts 2 and 3 of reduce.                           *)
(***************************************************************************)
C2_MuteShortCircuit ==
  Muted => \A e \in SpeechStartEvents(NextTimes) \cup SpeechStopEvents(NextTimes)
                      \cup AudioFrameEvents(NextTimes) :
             Reduce(state, e) = [state |-> state, actions |-> <<>>]

(***************************************************************************)
(* C2 amended: while muted, a VAD_SPEECH_START or a VAD_SPEECH_STOP        *)
(* changes no field and returns no action; an AUDIO_FRAME changes no field *)
(* other than state_machine, force_ended, turn_end_reason and              *)
(* human_speaking_limit_ack_sent, returns no INTERRUPT_AI, and has exactly *)
(* the effect and the actions of a TICK with the same timestamp.           *)
(***************************************************************************)
C2_MuteShortCircuitAmended ==
  Muted =>
    /\ \A e \in SpeechStartEvents(NextTimes) \cup SpeechStopEvents(NextTimes) :
         Reduce(state, e) = [state |-> state, actions |-> <<>>]
    /\ \A e \in AudioFrameEvents(NextTimes) :
         LET r == Reduce(state, e)
         IN /\ r = Reduce(state, Event("TICK", e.timestamp, FALSE, <<>>, ""))
            /\ ~HasAction(r.actions, "INTERRUPT_AI")
            /\ [r.state EXCEPT !.state_machine = state.state_machine,
                               !.force_ended = state.force_ended,
                               !.turn_end_reason = state.turn_end_reason,
                               !.human_speaking_limit_ack_sent =
                                  state.human_speaking_limit_ack_sent] = state

\* a muted state in which the human is marked speaking (a VAD_SPEECH_STOP
\* would clear the mark) and in which a frame ends the pausing turn
C2_Witness ==
  /\ Muted
  /\ state.is_human_speaking
  /\ \E e \in SpeechStopEvents(NextTimes) :
       Reduce(state, e) = [state |-> state, actions |-> <<>>]

C2_WitnessFrame ==
  /\ Muted
  /\ state.state_machine = "PAUSING"
  /\ \E e \in AudioFrameEvents(NextTimes) :
       HasAction(Reduce(state, e).actions, "PROCESS_TURN")

\* the decision table of the interruption, as the claim writes it
InterruptRule(s, e) ==
  LET wordCount == WordCount(s.current_partial_transcript)
      energy == e.is_speech
      sensitivity == s.interruption_sensitivity
  IN \/ s.authority = "human" /\ (wordCount >= 1 \/ energy)
     \/ sensitivity >= 90 /\ energy
     \/ sensitivity <= 10 /\ wordCount >= 2
     \/ /\ 10 < sensitivity /\ sensitivity < 90
        /\ energy /\ (wordCount >= 2 \/ sensitivity > 50)

\* the frame is more than 250 ms after the last accepted interruption
OutsideDebounce(s, e) == e.timestamp - s.last_interrupt_time > DebounceMs

(***************************************************************************)
(* C3 as stated: for an AUDIO_FRAME reduced while the AI is speaking,      *)
(* authority is not ai and the frame is outside the debounce window,       *)
(* INTERRUPT_AI is emitted exactly when the decision table says so.  A     *)
(* force-ended turn refutes it: its frames are not listened to at all.     *)
(***************************************************************************)
C3_InterruptionDecision ==
  state.is_ai_speaking /\ state.authority # "ai" =>
    \A e \in AudioFrameEvents(NextTimes) :
      OutsideDebounce(state, e) =>
        (HasAction(Reduce(state, e).actions, "INTERRUPT_AI")
           <=> InterruptRule(state, e))

(***************************************************************************)
(* C3 amended: for an AUDIO_FRAME reduced while the AI is speaking,        *)
(* authority is not ai, the turn is not force-ended and the frame is       *)
(* outside the debounce window, INTERRUPT_AI is emitted exactly when the   *)
(* decision table says so.                                                 *)
(***************************************************************************)
C3_InterruptionDecisionAmended ==
  state.is_ai_speaking /\ state.authority # "ai" /\ ~state.force_ended =>
    \A e \in AudioFrameEvents(NextTimes) :
      OutsideDebounce(state, e) =>
        (HasAction(Reduce(state, e).actions, "INTERRUPT_AI")
           <=> InterruptRule(state, e))

\* the hybrid rule at work: at sensitivity 0.5 a speech frame without two
\* words is rejected, with two words it is accepted
C3_Witness ==
  /\ state.is_ai_speaking /\ state.authority = "default" /\ ~state.force_ended
  /\ state.interruption_sensitivity = 50
  /\ WordCount(state.current_partial_transcript) = 2
  /\ \E e \in AudioFrameEvents(NextTimes) :
       /\ e.is_speech /\ OutsideDebounce(state, e)
       /\ HasAction(Reduce(state, e).actions, "INTERRUPT_AI")

C3_WitnessReject ==
  /\ state.is_ai_speaking /\ state.authority = "default" /\ ~state.force_ended
  /\ state.interruption_sensitivity = 50
  /\ WordCount(state.current_partial_transcript) = 1
  /\ \E e \in AudioFrameEvents(NextTimes) :
       /\ e.is_speech /\ OutsideDebounce(state, e)
       /\ ~HasAction(Reduce(state, e).actions, "INTERRUPT_AI")

(***************************************************************************)
(* C4: after an interruption was accepted for a frame at time t1 (the      *)
(* value of last_interrupt_time), no AUDIO_FRAME with a timestamp t2,      *)
(* 0 <= t2 - t1 <= 250 ms, produces another INTERRUPT_AI, also when the AI *)
(* started speaking again in between.  The code refutes it: it stores t1   *)
(* in seconds and subtracts it from t2 in milliseconds.                    *)
(***************************************************************************)
C4_Debounce ==
  state.turn_interrupt_accepts >= 1 =>
    \A e \in AudioFrameEvents(NextTimes) :
      e.timestamp - state.last_interrupt_time \in 0..DebounceMs =>
        ~HasAction(Reduce(state, e).actions, "INTERRUPT_AI")

(***************************************************************************)
(* C5: with authority = ai no event makes reduce emit INTERRUPT_AI, and no *)
(* AUDIO_FRAME clears the AI speech queue or resets is_ai_speaking,        *)
(* whatever the energy, the partial transcript and the sensitivity.        *)
(***************************************************************************)
C5_AiAuthorityNeverInterrupted ==
  state.authority = "ai" =>
    \A e \in Events :
      LET r == Reduce(state, e)
      IN /\ ~HasAction(r.actions, "INTERRUPT_AI")
         /\ e.type = "AUDIO_FRAME" =>
              /\ r.state.ai_speech_queue = state.ai_speech_queue
              /\ r.state.is_ai_speaking = state.is_ai_speaking

\* authority ai at full sensitivity, the AI speaking with a sentence queued,
\* two words recognised, and a speech frame far from any earlier interruption
C5_Witness ==
  /\ state.authority = "ai" /\ state.interruption_sensitivity = 100
  /\ state.is_ai_speaking /\ state.ai_speech_queue # <<>>
  /\ WordCount(state.current_partial_transcript) = 2
  /\ \E e \in AudioFrameEvents(NextTimes) :
       /\ e.is_speech /\ OutsideDebounce(state, e)
       /\ Reduce(state, e).state.ai_speech_queue = state.ai_speech_queue

(***************************************************************************)
(* C9: in every reachable state a non-empty ai_speech_queue implies        *)
(* is_ai_speaking.                                                         *)
(***************************************************************************)
C9_QueueOnlyWhileSpeaking ==
  state.ai_speech_queue # <<>> => state.is_ai_speaking

\* a sentence is queued behind the one being spoken, and an interruption of
\* this state empties the queue together with the flag
C9_Witness ==
  /\ state.ai_speech_queue # <<>>
  /\ \E e \in AudioFrameEvents(NextTimes) :
       LET r == Reduce(state, e)
       IN ~r.state.is_ai_speaking /\ r.state.ai_speech_queue = <<>>

(***************************************************************************)
(* C6 as stated: in Scenario A with the four events only (VAD_SPEECH_START *)
(* at base, VAD_SPEECH_STOP at base+0.6 s, TICK at base+1.3 s, TICK at     *)
(* base+2.0 s) the machine is PAUSING after the first TICK, and IDLE with  *)
(* exactly one PROCESS_TURN, of reason silence, after the second, for      *)
(* every base.  The code refutes it: without a voiced frame the silence is *)
(* counted from the VAD_SPEECH_START.                                      *)
(***************************************************************************)
AfterFirstTick == scenario.script # <<>> /\ scenario.pc = Len(scenario.script) - 1

AfterSecondTick == scenario.script # <<>> /\ scenario.pc = Len(scenario.script)

ScenarioAOutcome ==
  /\ AfterFirstTick => state.state_machine = "PAUSING" /\ scenario.turns = <<>>
  /\ AfterSecondTick =>
       state.state_machine = "IDLE" /\ scenario.turns = << "silence" >>

C6_ScenarioA == ~scenario.voiced => ScenarioAOutcome

(***************************************************************************)
(* C6 amended: in Scenario A with the voiced frames between the            *)
(* VAD_SPEECH_START and the VAD_SPEECH_STOP (speech AUDIO_FRAMEs, the last *)
(* at base+0.55 s) the machine is SPEAKING until the first TICK, PAUSING   *)
(* after it, and IDLE with exactly one PROCESS_TURN, of reason silence,    *)
(* after the second, for every base.                                       *)
(***************************************************************************)
C6_ScenarioAVoiced ==
  scenario.voiced =>
    /\ ScenarioAOutcome
    /\ (scenario.pc >= 1 /\ scenario.pc <= Len(scenario.script) - 2) =>
         state.state_machine = "SPEAKING" /\ scenario.turns = <<>>

\* the voiced scenario at a base other than 0 has run to its end
C6_Witness ==
  /\ scenario.voiced /\ AfterSecondTick
  /\ scenario.script[1].timestamp > 0
  /\ state.state_machine = "IDLE" /\ scenario.turns = << "silence" >>
  /\ state.turn_end_reason = "silence"

(***************************************************************************)
(* C7: in every reachable state in which the machine is SPEAKING or        *)
(* PAUSING, TICKs alone, with timestamps that grow without bound, bring    *)
(* the machine to IDLE with a PROCESS_TURN.  Stated on finite runs: the    *)
(* silence a TICK measures grows with its timestamp, so if TICKs can end   *)
(* the turn at all, a TICK one safety timeout from now and a second one    *)
(* two safety timeouts from now do.  The formula is the claim for the      *)
(* states in which the human is not marked as speaking; the code refutes   *)
(* it: with last_voice_time None (after a RESET_TURN, which leaves the     *)
(* machine as it is) or 0.0 the silence is 0 at every TICK.                *)
(***************************************************************************)
TickAt(s, t) == Reduce(s, Event("TICK", t, FALSE, <<>>, ""))

TicksEndTurn(s, now) ==
  LET r1 == TickAt(s, now + DefaultSafetyTimeoutMs)
      r2 == TickAt(r1.state, now + 2 * DefaultSafetyTimeoutMs)
  IN /\ r2.state.state_machine = "IDLE"
     /\ \/ HasAction(r1.actions, "PROCESS_TURN")
        \/ HasAction(r2.actions, "PROCESS_TURN")

C7_TickProgress ==
  (state.state_machine \in {"SPEAKING", "PAUSING"} /\ ~state.is_human_speaking)
    => TicksEndTurn(state, clock)

\* never reached if a RESET_TURN cannot leave the machine PAUSING without a
\* last_voice_time
C7_NotStuckAfterReset ==
  ~(state.state_machine = "PAUSING" /\ state.last_voice_time = None
      /\ ~TicksEndTurn(state, clock))

(***************************************************************************)
(* C8: whenever reduce emits INTERRUPT_AI, the resulting state has an      *)
(* empty ai_speech_queue, is_ai_speaking false, one more accepted          *)
(* interruption and last_interrupt_time equal to the timestamp of the      *)
(* frame, and the actions hold the INTERRUPT_AI with its reason and a LOG; *)
(* and no sentence that was queued at that moment is the text of a         *)
(* SPEAK_SENTENCE of the run (a queued sentence was not spoken before, so  *)
(* none is spoken later).                                                  *)
(***************************************************************************)
\* the events that can come next in a run of the stream
StreamNextTimes == { t \in StreamTimes \cup { clock + 300 } : t >= clock }

StreamEvents ==
  SpeechStartEvents(StreamNextTimes) \cup SpeechStopEvents(StreamNextTimes)
    \cup AudioFrameEvents(StreamNextTimes)
    \cup PartialTranscriptEvents(StreamNextTimes)
    \cup StreamSentenceReadyEvents(StreamNextTimes)
    \cup SpeechFinishedEvents(StreamNextTimes)
    \cup TickEvents(StreamNextTimes) \cup ResetTurnEvents(StreamNextTimes)
    \cup PhaseTransitionEvents(StreamNextTimes)

\* the reasons _check_interruption accepts an interruption with
InterruptReasons ==
  { "speech", "energy trigger (absolute human auth)", "energy spike",
    "hybrid trigger" }

C8_InterruptionIsFinal ==
  /\ \A e \in StreamEvents :
       LET r == Reduce(state, e)
       IN HasAction(r.actions, "INTERRUPT_AI") =>
            /\ e.type = "AUDIO_FRAME"
            /\ r.state.ai_speech_queue = <<>>
            /\ ~r.state.is_ai_speaking
            /\ r.state.turn_interrupt_accepts = state.turn_interrupt_accepts + 1
            /\ r.state.last_interrupt_time = e.timestamp
            /\ CountActions(r.actions, "INTERRUPT_AI") = 1
            /\ Range(ActionReasons(r.actions, "INTERRUPT_AI")) \subseteq InterruptReasons
            /\ HasAction(r.actions, "LOG")
  /\ stream.dropped \cap Range(stream.spoken) = {}

\* a queued sentence was dropped by an interruption, and a sentence that
\* arrived after it has been spoken since
C8_Witness ==
  /\ stream.dropped # {}
  /\ stream.spoken # <<>>
  /\ \E i, j \in 1..Len(stream.ready) :
       /\ i < j
       /\ stream.ready[i] \in stream.dropped
       /\ stream.ready[j] = stream.spoken[Len(stream.spoken)]

(***************************************************************************)
(* C10 as stated: in a run without an accepted interruption in which every *)
(* SPEAK_SENTENCE is answered by one AI_SPEECH_FINISHED, the texts spoken  *)
(* followed by the texts queued are the non-empty texts that arrived, in   *)
(* arrival order; the AI is speaking exactly while a sentence is not yet   *)
(* answered; and is_ai_speaking becomes false only on the                  *)
(* AI_SPEECH_FINISHED that finds the queue empty, which sets the speaker   *)
(* label to silence.  The label refutes it: it is left alone when it is    *)
(* not ai.                                                                 *)
(***************************************************************************)
FifoLossless ==
  /\ stream.spoken \o state.ai_speech_queue = stream.ready
  /\ state.is_ai_speaking <=> stream.finished < Len(stream.spoken)
  /\ stream.finished \in { Len(stream.spoken) - 1, Len(stream.spoken) }

\* is_ai_speaking falls on no event but the AI_SPEECH_FINISHED that finds the
\* queue empty, and then the label is label(old label)
SpeakingEndsWith(label(_)) ==
  \A e \in StreamEvents :
    LET r == Reduce(state, e)
        falls == state.is_ai_speaking /\ ~r.state.is_ai_speaking
    IN ~HasAction(r.actions, "INTERRUPT_AI") =>
         /\ falls <=> /\ state.is_ai_speaking
                      /\ e.type = "AI_SPEECH_FINISHED"
                      /\ state.ai_speech_queue = <<>>
         /\ falls => r.state.current_speaker = label(state.current_speaker)

SilenceLabel(old) == "silence"

SilenceAfterAiLabel(old) == IF old = "ai" THEN "silence" ELSE old

C10_FifoLossless ==
  ~stream.interrupted => FifoLossless /\ SpeakingEndsWith(SilenceLabel)

(***************************************************************************)
(* C10 amended: as C10, but the AI_SPEECH_FINISHED that finds the queue    *)
(* empty sets the speaker label to silence only if the label is ai; a      *)
(* label human (the human started to speak over the AI) stays.             *)
(***************************************************************************)
C10_FifoLosslessAmended ==
  ~stream.interrupted => FifoLossless /\ SpeakingEndsWith(SilenceAfterAiLabel)

\* two sentences wait behind the one being spoken; the AI_SPEECH_FINISHED
\* speaks the one that arrived second
C10_Witness ==
  /\ ~stream.interrupted
  /\ Len(stream.ready) = 3 /\ Len(stream.spoken) = 1
  /\ Len(state.ai_speech_queue) = 2
  /\ \E e \in SpeechFinishedEvents(StreamNextTimes) :
       ActionReasons(Reduce(state, e).actions, "SPEAK_SENTENCE")
         = << stream.ready[2] >>

\* three sentences were spoken and answered, the AI is silent again
C10_WitnessDone ==
  /\ ~stream.interrupted
  /\ Len(stream.ready) = 3 /\ stream.spoken = stream.ready
  /\ stream.finished = 3
  /\ ~state.is_ai_speaking /\ state.current_speaker = "silence"

\* the reasons of the PROCESS_TURN actions of one reduce
ProcessTurns(r) == ActionReasons(r.actions, "PROCESS_TURN")

\* now - last_voice_time >= safety_timeout_ms, for a last_voice_time that is set
SafetySilence(s, e) ==
  s.last_voice_time # None /\ e.timestamp - s.last_voice_time >= s.safety_timeout_ms

\* what the safety timeout does
SafetyTimeoutOutcome(s, r) ==
  /\ r.state.state_machine = "IDLE"
  /\ r.state.force_ended
  /\ r.state.turn_end_reason = "safety_timeout"
  /\ ProcessTurns(r) = << "safety_timeout" >>

\* e neither restarts the voice timer or the turn (a VAD_SPEECH_START, a
\* speech frame that is listened to, a RESET_TURN) nor is dropped by the mute
KeepsSilence(s, e) ==
  /\ e.type \notin {"VAD_SPEECH_START", "RESET_TURN"}
  /\ ~(e.type = "AUDIO_FRAME" /\ e.is_speech /\ CanListen(s))
  /\ ~(IsMicMuted(s) /\ e.type \in {"VAD_SPEECH_STOP", "ASR_PARTIAL_TRANSCRIPT"})

(***************************************************************************)
(* C11 as stated: whenever an event of any kind is reduced in a state with *)
(* the machine PAUSING, authority not human and now - last_voice_time >=   *)
(* safety_timeout_ms, the machine goes to IDLE, force_ended becomes true,  *)
(* turn_end_reason becomes safety_timeout and exactly one PROCESS_TURN, of *)
(* reason safety_timeout, is emitted.  A VAD_SPEECH_START refutes it: it   *)
(* resumes the turn and restarts the silence.                              *)
(***************************************************************************)
C11_SafetyTimeout ==
  (state.state_machine = "PAUSING" /\ state.authority # "human") =>
    \A e \in Events :
      SafetySilence(state, e) => SafetyTimeoutOutcome(state, Reduce(state, e))

(***************************************************************************)
(* C11 amended: the same for a TICK and for every other event that neither *)
(* restarts the silence or the turn (VAD_SPEECH_START, a speech            *)
(* AUDIO_FRAME that is listened to, RESET_TURN) nor is dropped by the mic  *)
(* mute (VAD_SPEECH_STOP, ASR_PARTIAL_TRANSCRIPT while authority is ai and *)
(* the AI speaks), and for a last_voice_time other than 0.0; the safety    *)
(* timeout wins over the end_ms check, which holds at the same time.       *)
(***************************************************************************)
C11_SafetyTimeoutAmended ==
  (state.state_machine = "PAUSING" /\ state.authority # "human") =>
    \A e \in Events :
      (SafetySilence(state, e) /\ state.last_voice_time # 0
         /\ KeepsSilence(state, e))
        => SafetyTimeoutOutcome(state, Reduce(state, e))

\* a pausing turn of authority default whose silence reaches the safety
\* timeout, and the end_ms, at a TICK
C11_Witness ==
  /\ state.state_machine = "PAUSING" /\ state.authority = "default"
  /\ \E e \in TickEvents(NextTimes) :
       /\ SafetySilence(state, e) /\ state.last_voice_time # 0
       /\ e.timestamp - state.last_voice_time >= state.end_ms
       /\ SafetyTimeoutOutcome(state, Reduce(state, e))

(***************************************************************************)
(* C12: with authority human no event sets force_ended or produces a       *)
(* PROCESS_TURN of reason safety_timeout.  A reduce emits at most one      *)
(* PROCESS_TURN; it leaves SPEAKING or PAUSING for IDLE only with one; its *)
(* reason is silence, and then the silence since last_voice_time is at     *)
(* least end_ms, or limit_exceeded, and then the turn is longer than the   *)
(* speaking limit.                                                         *)
(***************************************************************************)
C12_HumanAuthorityNeverForceEnded ==
  state.authority = "human" =>
    /\ ~state.force_ended
    /\ \A e \in Events :
         LET r == Reduce(state, e)
             ends == state.state_machine # "IDLE" /\ r.state.state_machine = "IDLE"
         IN /\ ~r.state.force_ended
            /\ Len(ProcessTurns(r)) <= 1
            /\ ends <=> ProcessTurns(r) # <<>>
            /\ Range(ProcessTurns(r)) \subseteq {"silence", "limit_exceeded"}
            /\ "silence" \in Range(ProcessTurns(r)) =>
                 /\ r.state.last_voice_time # None
                 /\ e.timestamp - r.state.last_voice_time >= state.end_ms
            /\ "limit_exceeded" \in Range(ProcessTurns(r)) =>
                 /\ state.turn_start_time # None
                 /\ e.timestamp - state.turn_start_time
                      > 1000 * state.human_speaking_limit_sec

\* a pausing turn of authority human whose silence has passed the safety
\* timeout: the TICK ends it with reason silence
C12_Witness ==
  /\ state.authority = "human" /\ state.state_machine = "PAUSING"
  /\ \E e \in TickEvents(NextTimes) :
       /\ SafetySilence(state, e) /\ state.last_voice_time # 0
       /\ ProcessTurns(Reduce(state, e)) = << "silence" >>
       /\ ~Reduce(state, e).state.force_ended

(***************************************************************************)
(* C13: whenever an event is reduced while the machine is PAUSING and      *)
(* human_speaking_limit_ack_sent is already true, the machine goes to IDLE *)
(* and a PROCESS_TURN of reason limit_exceeded is emitted, without waiting *)
(* for the silence to reach end_ms.  The formula is the claim for a TICK   *)
(* that arrives before the silence reaches end_ms.  The code refutes it:   *)
(* part 3 of reduce does nothing once the ack was sent, the turn waits for *)
(* end_ms and ends with reason silence.                                    *)
(***************************************************************************)
C13_LimitOverride ==
  (state.state_machine = "PAUSING" /\ state.human_speaking_limit_ack_sent) =>
    \A e \in TickEvents(NextTimes) :
      (state.last_voice_time # None
         /\ e.timestamp - state.last_voice_time < state.end_ms) =>
        LET r == Reduce(state, e)
        IN /\ r.state.state_machine = "IDLE"
           /\ ProcessTurns(r) = << "limit_exceeded" >>

\* the Tick of Scenario D: 6 s after the start of the turn
ScenarioDTick == Event("TICK", state.turn_start_time + 6000, FALSE, <<>>, "")

\* Scenario D applies: the limit is 5 s, a turn has started, no ack was sent,
\* and the Tick at t0 + 6 s is still to come
ScenarioD ==
  /\ state.human_speaking_limit_sec = ScenarioLimitSec
  /\ state.turn_start_time # None
  /\ ~state.human_speaking_limit_ack_sent
  /\ ScenarioDTick.timestamp >= clock

\* the Tick sets the ack and emits one PLAY_ACK
AckPlayed(r) ==
  /\ r.state.human_speaking_limit_ack_sent
  /\ CountActions(r.actions, "PLAY_ACK") = 1

C14_WitnessPausing ==
  /\ ScenarioD
  /\ state.state_machine = "PAUSING"
  /\ ProcessTurns(Reduce(state, ScenarioDTick)) = << "silence" >>
  /\ AckPlayed(Reduce(state, ScenarioDTick))

\* the two interruption counters of the turn
InterruptCounters(s) == << s.turn_interrupt_attempts, s.turn_interrupt_accepts >>

(***************************************************************************)
(* C15 as stated: every AUDIO_FRAME reduced while the AI is speaking adds  *)
(* exactly one to the attempt counter, accepted or rejected, whatever the  *)
(* reason of the rejection (authority ai included); the accept counter     *)
(* grows, by one, only on acceptance; accepts <= attempts.  Authority ai   *)
(* refutes it: its frames are muted while the AI speaks and count nothing. *)
(***************************************************************************)
C15_EveryFrameIsAnAttempt ==
  /\ state.turn_interrupt_accepts <= state.turn_interrupt_attempts
  /\ state.is_ai_speaking =>
       \A e \in AudioFrameEvents(NextTimes) :
         LET r == Reduce(state, e)
             accepted == HasAction(r.actions, "INTERRUPT_AI")
         IN InterruptCounters(r.state) =
              << state.turn_interrupt_attempts + 1,
                 state.turn_interrupt_accepts + (IF accepted THEN 1 ELSE 0) >>

(***************************************************************************)
(* C15 amended: every AUDIO_FRAME that is listened to (authority is not ai *)
(* and the turn is not force-ended) while the AI is speaking adds exactly  *)
(* one to the attempt counter, accepted or rejected (by the debounce or by *)
(* the sensitivity rule); the accept counter grows, by one, only on        *)
(* acceptance.  A frame that is not listened to, or that arrives while the *)
(* AI is silent, is never accepted and leaves both counters alone.         *)
(* accepts <= attempts in every state.                                     *)
(***************************************************************************)
C15_ListenedFrameIsAnAttempt ==
  /\ state.turn_interrupt_accepts <= state.turn_interrupt_attempts
  /\ \A e \in AudioFrameEvents(NextTimes) :
       LET r == Reduce(state, e)
           accepted == HasAction(r.actions, "INTERRUPT_AI")
           listened == state.authority # "ai" /\ ~state.force_ended
       IN IF state.is_ai_speaking /\ listened
            THEN InterruptCounters(r.state) =
                   << state.turn_interrupt_attempts + 1,
                      state.turn_interrupt_accepts + (IF accepted THEN 1 ELSE 0) >>
          ELSE ~accepted /\ InterruptCounters(r.state) = InterruptCounters(state)

\* the AI speaks and is listened to: one frame is counted but rejected by the
\* debounce, another is counted but rejected by the sensitivity rule
C15_Witness ==
  /\ state.is_ai_speaking /\ state.authority # "ai" /\ ~state.force_ended
  /\ \E e, f \in AudioFrameEvents(NextTimes) :
       /\ CheckInterruption(state, e).reason = "debounce"
       /\ ~CheckInterruption(state, f).should
       /\ CheckInterruption(state, f).reason # "debounce"
       /\ InterruptCounters(Reduce(state, e).state)
            = << state.turn_interrupt_attempts + 1, state.turn_interrupt_accepts >>
       /\ InterruptCounters(Reduce(state, f).state)
            = << state.turn_interrupt_attempts + 1, state.turn_interrupt_accepts >>

\* the timestamps of a next event of a session
TurnNextTimes == { t \in TurnTimes \cup {clock} : t >= clock }

\* the turn-scoped fields of the state
TurnScoped(s) ==
  [turn_audio_buffer |-> s.turn_audio_buffer,
   current_partial_transcript |-> s.current_partial_transcript,
   turn_start_time |-> s.turn_start_time,
   last_voice_time |-> s.last_voice_time,
   human_speaking_limit_ack_sent |-> s.human_speaking_limit_ack_sent,
   force_ended |-> s.force_ended,
   turn_interrupt_attempts |-> s.turn_interrupt_attempts,
   turn_interrupt_accepts |-> s.turn_interrupt_accepts,
   turn_partial_transcripts |-> s.turn_partial_transcripts,
   turn_final_transcript |-> s.turn_final_transcript,
   turn_ai_transcript |-> s.turn_ai_transcript,
   turn_end_reason |-> s.turn_end_reason,
   turn_transcription_ms |-> s.turn_transcription_ms,
   turn_llm_generation_ms |-> s.turn_llm_generation_ms,
   turn_total_latency_ms |-> s.turn_total_latency_ms,
   turn_confidence_score |-> s.turn_confidence_score]

\* RESET_TURN reduced twice in a row, at timestamps in order
ResetTwice(s, e1, e2) ==
  LET r1 == Reduce(s, e1)
      r2 == Reduce(r1.state, e2)
  IN [once |-> r1, twice |-> r2]

(***************************************************************************)
(* C16: idempotent reset.  RESET_TURN reduced twice in a row leaves every  *)
(* turn-scoped field (audio buffer, partial transcript, turn_start_time,   *)
(* last_voice_time, the ack and force-ended flags, the interrupt counters, *)
(* the transcripts, the latencies, the end reason, the confidence) at the  *)
(* value the first one gave it, and the second one emits no LOG_TURN.      *)
(***************************************************************************)
C16_ResetIdempotent ==
  \A e1 \in ResetTurnEvents(TurnNextTimes) :
    \A e2 \in ResetTurnEvents({ t \in TurnNextTimes : t >= e1.timestamp }) :
      LET rr == ResetTwice(state, e1, e2)
      IN /\ TurnScoped(rr.twice.state) = TurnScoped(rr.once.state)
         /\ ~HasAction(rr.twice.actions, "LOG_TURN")

\* a turn with content, interrupted once, ended and processed: the first
\* reset logs it and clears it, the second has nothing to log
C16_Witness ==
  /\ HasContent(state)
  /\ state.turn_interrupt_accepts > 0
  /\ state.turn_end_reason # ""
  /\ state.turn_confidence_score # 100
  /\ \E e \in ResetTurnEvents(TurnNextTimes) :
       LET rr == ResetTwice(state, e, e)
       IN /\ HasAction(rr.once.actions, "LOG_TURN")
          /\ TurnScoped(rr.once.state) # TurnScoped(state)
          /\ TurnScoped(rr.twice.state) = TurnScoped(rr.once.state)
          /\ ~HasAction(rr.twice.actions, "LOG_TURN")

\* the events that can come next in a session
TurnEvents ==
  SpeechStartEvents(TurnNextTimes) \cup SpeechStopEvents(TurnNextTimes)
    \cup AudioFrameEvents(TurnNextTimes)
    \cup PartialTranscriptEvents(TurnNextTimes)
    \cup SentenceReadyEvents(TurnNextTimes)
    \cup SpeechFinishedEvents(TurnNextTimes) \cup TickEvents(TurnNextTimes)
    \cup ResetTurnEvents(TurnNextTimes)
    \cup PhaseTransitionEvents(TurnNextTimes)

(***************************************************************************)
(* C17 as stated: turn_id never decreases, only RESET_TURN changes it, and *)
(* after N RESET_TURN events with content (turn_start_time set and a final *)
(* transcript) it has grown by exactly N.  A RESET_TURN without content    *)
(* refutes the count: it increments turn_id as well.                       *)
(***************************************************************************)
C17_TurnIdCountsContent ==
  /\ state.turn_id = session.completed
  /\ \A e \in TurnEvents :
       /\ Reduce(state, e).state.turn_id >= state.turn_id
       /\ e.type # "RESET_TURN" => Reduce(state, e).state.turn_id = state.turn_id

(***************************************************************************)
(* C17 amended: turn_id never decreases and only RESET_TURN changes it:    *)
(* every RESET_TURN, with or without content, adds exactly one.  After N   *)
(* RESET_TURN events turn_id has grown by exactly N, which is the number   *)
(* of those with content only when each of them had content.               *)
(***************************************************************************)
C17_TurnIdCountsResets ==
  /\ state.turn_id = session.resets
  /\ session.completed <= session.resets
  /\ \A e \in TurnEvents :
       Reduce(state, e).state.turn_id
         = state.turn_id + (IF e.type = "RESET_TURN" THEN 1 ELSE 0)

\* two turns were reset, one with content and one without
C17_Witness ==
  /\ session.resets = 2
  /\ session.completed = 1
  /\ Len(session.logged) = 1
  /\ state.turn_id = 2

\* the turn-scoped fields of a fresh state
ClearedTurn == TurnScoped(SystemState(Profile("default", 100, None)))

\* r is the result of a RESET_TURN in state s: the LOG_TURN it emits, if any,
\* carries the values of s, and the turn-scoped fields are cleared
LogsAndClears(s, r) ==
  LET logs == ActionReasons(r.actions, "LOG_TURN")
  IN /\ Len(logs) <= 1
     /\ \A i \in 1..Len(logs) :
          /\ logs[i].turn_id = s.turn_id
          /\ logs[i].timestamp = s.turn_start_time
          /\ logs[i].interrupt_attempts = s.turn_interrupt_attempts
          /\ logs[i].interrupt_accepts = s.turn_interrupt_accepts
          /\ logs[i].end_reason = s.turn_end_reason
          /\ logs[i].partial_transcripts = s.turn_partial_transcripts
          /\ logs[i].final_transcript = s.turn_final_transcript
          /\ logs[i].ai_transcript = s.turn_ai_transcript
     /\ TurnScoped(r.state) = ClearedTurn
     /\ r.state.turn_id = s.turn_id + 1

(***************************************************************************)
(* C18: a RESET_TURN emits a LOG_TURN if and only if, before the reset,    *)
(* turn_start_time is set and the final transcript is not empty; the       *)
(* payload carries the values before the reset (turn_id before the         *)
(* increment, interrupt counters, end reason, transcripts) and the         *)
(* turn-scoped fields are cleared in the same step.                        *)
(***************************************************************************)
C18_LogTurnIffContent ==
  \A e \in ResetTurnEvents(TurnNextTimes) :
    LET r == Reduce(state, e)
    IN /\ HasAction(r.actions, "LOG_TURN") <=> HasContent(state)
       /\ LogsAndClears(state, r)

\* C18 holds of the turns that did not start at timestamp 0.0
C18_LogTurnIffTruthyContent ==
  \A e \in ResetTurnEvents(TurnNextTimes) :
    LET r == Reduce(state, e)
    IN /\ HasAction(r.actions, "LOG_TURN")
            <=> (HasContent(state) /\ state.turn_start_time # 0)
       /\ LogsAndClears(state, r)

\* a turn with content that started later than 0.0 is logged by its reset
C18_WitnessLogged ==
  /\ HasContent(state) /\ state.turn_start_time > 0
  /\ state.turn_interrupt_attempts > 0 /\ state.turn_end_reason # ""
  /\ \E e \in ResetTurnEvents(TurnNextTimes) :
       HasAction(Reduce(state, e).actions, "LOG_TURN")

(***************************************************************************)
(* C19: over events with non-decreasing timestamps last_interrupt_time     *)
(* never decreases: it is never later than the last timestamp reduced, an  *)
(* accepted interruption sets it to the timestamp of its frame, which is   *)
(* not smaller than before, and every other event, RESET_TURN included,    *)
(* leaves it untouched.                                                    *)
(***************************************************************************)
C19_LastInterruptTimeMonotonic ==
  /\ state.last_interrupt_time <= clock
  /\ \A e \in TurnEvents :
       LET r == Reduce(state, e)
       IN IF HasAction(r.actions, "INTERRUPT_AI")
            THEN /\ e.type = "AUDIO_FRAME"
                 /\ r.state.last_interrupt_time = e.timestamp
                 /\ r.state.last_interrupt_time >= state.last_interrupt_time
          ELSE r.state.last_interrupt_time = state.last_interrupt_time

\* an interruption was accepted in an earlier turn, its time survived the
\* reset, and a later frame is accepted and moves it forward
C19_Witness ==
  /\ state.last_interrupt_time > 0
  /\ state.turn_id > 0
  /\ state.turn_interrupt_accepts = 0
  /\ \E e \in AudioFrameEvents(TurnNextTimes) :
       /\ HasAction(Reduce(state, e).actions, "INTERRUPT_AI")
       /\ Reduce(state, e).state.last_interrupt_time > state.last_interrupt_time
  /\ \A e \in ResetTurnEvents(TurnNextTimes) :
       Reduce(state, e).state.last_interrupt_time = state.last_interrupt_time

\* events of every kind and payload: now, within the debounce, after the
\* pause, after every timeout
TotalOffsets == {0, 250, 700, 3000}

TotalTimes == { clock + d : d \in TotalOffsets }

TotalEvents ==
  SpeechStartEvents(TotalTimes) \cup SpeechStopEvents(TotalTimes)
    \cup AudioFrameEvents(TotalTimes) \cup PartialTranscriptEvents(TotalTimes)
    \cup SentenceReadyEvents(TotalTimes) \cup SpeechFinishedEvents(TotalTimes)
    \cup TickEvents(TotalTimes) \cup ResetTurnEvents(TotalTimes)
    \cup PhaseTransitionEvents(TotalTimes)

SilenceAtLeast(s, e, ms) ==
  s.last_voice_time # None /\ e.timestamp - s.last_voice_time >= ms

\* the end of the turn by the time checks: IDLE and one PROCESS_TURN
EndsTurn(r) ==
  /\ r.state.state_machine = "IDLE"
  /\ Len(ProcessTurns(r)) = 1
  /\ ProcessTurns(r)[1] \in {"silence", "safety_timeout"}

\* the pause by the time checks: PAUSING, unless the speaking limit ends the
\* paused turn in the same call
PausesTurn(r) ==
  \/ r.state.state_machine = "PAUSING" /\ ProcessTurns(r) = <<>>
  \/ r.state.state_machine = "IDLE" /\ ProcessTurns(r) = << "limit_exceeded" >>

(***************************************************************************)
(* C21 as stated: every event kind runs the time checks.  Whenever an      *)
(* event of any kind is reduced with the machine PAUSING and               *)
(* now - last_voice_time >= end_ms, the call moves the machine to IDLE and *)
(* emits PROCESS_TURN; whenever one is reduced with the machine SPEAKING,  *)
(* the human not speaking and the silence >= pause_ms, the call moves the  *)
(* machine to PAUSING.  A VAD_SPEECH_START, which resumes the turn, and a   *)
(* VAD_SPEECH_STOP dropped by the mic mute, at which reduce returns before *)
(* the checks, refute it.                                                  *)
(***************************************************************************)
C21_EveryEventRunsTimeChecks ==
  \A e \in TotalEvents :
    LET r == Reduce(state, e)
    IN /\ (state.state_machine = "PAUSING"
             /\ SilenceAtLeast(state, e, state.end_ms))
            => (r.state.state_machine = "IDLE" /\ ProcessTurns(r) # <<>>)
       /\ (state.state_machine = "SPEAKING" /\ ~state.is_human_speaking
             /\ SilenceAtLeast(state, e, state.pause_ms))
            => r.state.state_machine = "PAUSING"

(***************************************************************************)
(* C21 amended: the time checks run after the branch of the event, for     *)
(* every event kind but not for an event dropped by the mic mute.  An      *)
(* event that neither restarts the silence or the turn (VAD_SPEECH_START,  *)
(* a speech AUDIO_FRAME that is listened to, RESET_TURN) nor is dropped by *)
(* the mute (VAD_SPEECH_STOP, ASR_PARTIAL_TRANSCRIPT while authority is ai *)
(* and the AI speaks), reduced with a last_voice_time other than 0.0:      *)
(* with the machine PAUSING and the silence >= end_ms it moves the machine *)
(* to IDLE and emits exactly one PROCESS_TURN; with the machine SPEAKING,  *)
(* the human not speaking (or the event a VAD_SPEECH_STOP) and the silence *)
(* >= pause_ms it moves the machine to PAUSING, from where the speaking    *)
(* limit can end the turn in the same call.  A VAD_SPEECH_START,           *)
(* VAD_SPEECH_STOP or ASR_PARTIAL_TRANSCRIPT dropped by the mute changes   *)
(* nothing and runs no check.                                              *)
(***************************************************************************)
C21_TimeChecksAfterBranch ==
  \A e \in TotalEvents :
    LET r == Reduce(state, e)
        dropped == IsMicMuted(state)
                     /\ e.type \in {"VAD_SPEECH_START", "VAD_SPEECH_STOP",
                                    "ASR_PARTIAL_TRANSCRIPT"}
    IN /\ dropped => (r.state = state /\ r.actions = <<>>)
       /\ (KeepsSilence(state, e) /\ state.last_voice_time # 0) =>
            /\ (state.state_machine = "PAUSING"
                  /\ SilenceAtLeast(state, e, state.end_ms)) => EndsTurn(r)
            /\ (state.state_machine = "SPEAKING"
                  /\ (~state.is_human_speaking \/ e.type = "VAD_SPEECH_STOP")
                  /\ SilenceAtLeast(state, e, state.pause_ms)) => PausesTurn(r)

\* events that are neither TICK nor AUDIO_FRAME end a pausing turn: a phase
\* transition request and a sentence of the AI
C21_Witness ==
  /\ state.state_machine = "PAUSING" /\ state.last_voice_time > 0
  /\ \E e \in PhaseTransitionEvents(TotalTimes) :
       SilenceAtLeast(state, e, state.end_ms) /\ EndsTurn(Reduce(state, e))
  /\ \E e \in SentenceReadyEvents(TotalTimes) :
       SilenceAtLeast(state, e, state.end_ms) /\ EndsTurn(Reduce(state, e))

\* an AI_SPEECH_FINISHED pauses a speaking turn
C21_WitnessPauses ==
  /\ state.state_machine = "SPEAKING" /\ ~state.is_human_speaking
  /\ state.last_voice_time > 0
  /\ \E e \in SpeechFinishedEvents(TotalTimes) :
       /\ SilenceAtLeast(state, e, state.pause_ms)
       /\ Reduce(state, e).state.state_machine = "PAUSING"

\* the condition of a transition holds of the emitted signals
TransitionHolds(t, emitted_signals) ==
  IF t.require_all THEN t.trigger_signals \subseteq emitted_signals
  ELSE t.trigger_signals \cap emitted_signals # {}

\* the transitions of the graph declared for the active phase whose condition
\* holds, by their place in the declaration order
Triggered ==
  { i \in 1..Len(evaluator.transitions) :
      /\ evaluator.transitions[i].from_phase = state.current_phase_id
      /\ TransitionHolds(evaluator.transitions[i], evaluator.emitted) }

(***************************************************************************)
(* C22: find_transition(current_phase, emitted_signals) returns the        *)
(* to_phase of the first transition, in declaration order, that is         *)
(* declared for current_phase and whose condition holds (require_all:      *)
(* every trigger signal is emitted; otherwise: at least one is), and no    *)
(* phase when there is none.  It never returns the target of a transition  *)
(* declared for another phase; of two transitions that hold the earlier    *)
(* declared wins.                                                          *)
(***************************************************************************)
C22_FirstTriggeredTransition ==
  evaluator.evaluated =>
    /\ Triggered = {} => evaluator.next = NoPhase
    /\ Triggered # {} =>
         \E i \in Triggered :
           /\ \A j \in Triggered : i <= j
           /\ evaluator.next = evaluator.transitions[i].to_phase
    /\ evaluator.next # NoPhase =>
         \E i \in 1..Len(evaluator.transitions) :
           /\ evaluator.transitions[i].from_phase = state.current_phase_id
           /\ evaluator.transitions[i].to_phase = evaluator.next

\* two transitions of the active phase hold and lead to different phases: the
\* first declared is returned
C22_Witness ==
  /\ evaluator.evaluated
  /\ Triggered = {1, 2}
  /\ evaluator.transitions[1].to_phase # evaluator.transitions[2].to_phase
  /\ evaluator.transitions[1].require_all
  /\ evaluator.transitions[1].trigger_signals = SignalNames
  /\ evaluator.next = evaluator.transitions[1].to_phase

\* a transition declared earlier, for another phase, holds too: the one of
\* the active phase is returned
C22_WitnessOtherPhase ==
  /\ evaluator.evaluated
  /\ Len(evaluator.transitions) = 2
  /\ evaluator.transitions[1].from_phase # state.current_phase_id
  /\ TransitionHolds(evaluator.transitions[1], evaluator.emitted)
  /\ evaluator.transitions[1].to_phase # evaluator.transitions[2].to_phase
  /\ Triggered = {2}
  /\ evaluator.next = evaluator.transitions[2].to_phase

\* the configuration fields of the state
Configuration(s) ==
  [authority |-> s.authority, pause_ms |-> s.pause_ms, end_ms |-> s.end_ms,
   safety_timeout_ms |-> s.safety_timeout_ms,
   interruption_sensitivity |-> s.interruption_sensitivity,
   human_speaking_limit_sec |-> s.human_speaking_limit_sec]

\* the configurations of the phases of the graph
PhaseConfiguration(phase) ==
  CASE phase = "greeting" -> Profile("ai", 30, None)
    [] phase = "part1" -> Profile("human", 50, 1)
    [] OTHER -> Profile("default", 50, None)

\* the PHASE_TRANSITION the dispatcher raises for the phase found
PhaseRequested == Event("PHASE_TRANSITION", clock, FALSE, <<>>, evaluator.next)

\* the first two actions are TRANSITION_PHASE of the phase and a LOG
AnnouncesPhase(r, phase) ==
  /\ Len(r.actions) >= 2
  /\ r.actions[1] = Action("TRANSITION_PHASE", phase)
  /\ r.actions[2].type = "LOG"

AllListenersCalled(r, name) ==
  [i \in 1..Len(r.global_listeners) |-> Call("*", i, name)]
    \o (IF name \in DOMAIN r.listeners
          THEN [i \in 1..Len(r.listeners[name]) |-> Call(name, i, name)]
        ELSE <<>>)

\* a callback of the registry raises
SomeListenerRaises(r) ==
  \/ \E i \in 1..Len(r.global_listeners) : r.global_listeners[i].raises
  \/ \E n \in DOMAIN r.listeners :
       \E i \in 1..Len(r.listeners[n]) : r.listeners[n][i].raises

(***************************************************************************)
(* C24: a listener that raises never changes behaviour.  Whatever          *)
(* listeners are registered, raising or not, every emit of a signal of     *)
(* reduce returns normally after calling every global listener and every   *)
(* listener registered for the signal, and the reduce call returns the     *)
(* state and the actions it returns with no listener registered.           *)
(***************************************************************************)
C24_ListenerErrorsContained ==
  \A e \in { x \in BusEvents : x.timestamp >= clock } :
    LET r == ReduceEmitting(state, e, registry)
        quiet == ReduceEmitting(state, e, SignalRegistry)
        names == ReducerSignals(state, e)
    IN /\ \A i \in 1..Len(names) :
            /\ ~Emit(registry, names[i]).raised
            /\ Emit(registry, names[i]).calls
                 = AllListenersCalled(registry, names[i])
       /\ r.returned /\ quiet.returned
       /\ r.state = quiet.state
       /\ r.actions = quiet.actions

\* the case of test_listener_exception_handling, with a second listener: a
\* global listener that raises is registered before a listener of
\* conversation.interrupted; a speech frame interrupts the AI, and the
\* second listener is called with the signal
C24_Witness ==
  /\ Len(registry.global_listeners) = 1
  /\ registry.global_listeners[1].raises
  /\ "conversation.interrupted" \in DOMAIN registry.listeners
  /\ state.is_ai_speaking
  /\ \E e \in AudioFrameEvents(TotalRunTimes) :
       LET r == ReduceEmitting(state, e, registry)
       IN /\ e \in BusEvents /\ e.timestamp >= clock
          /\ ReducerSignals(state, e) = <<"conversation.interrupted">>
          /\ r.returned
          /\ r.calls = << Call("*", 1, "conversation.interrupted"),
                          Call("conversation.interrupted", 1,
                               "conversation.interrupted") >>
          /\ \E i \in 1..Len(r.actions) : r.actions[i].type = "INTERRUPT_AI"

\* a turn with content is reset while a raising listener is registered:
\* both signals of the reset reach it
C24_WitnessTwoSignals ==
  /\ SomeListenerRaises(registry)
  /\ \E e \in ResetTurnEvents(TotalRunTimes) :
       /\ e \in BusEvents /\ e.timestamp >= clock
       /\ Len(ReducerSignals(state, e)) = 2
       /\ Len(ReduceEmitting(state, e, registry).calls) >= 2

C25_WitnessSecondTurn ==
  /\ engine.worker.response = 2
  /\ engine.worker.transcribed
  /\ engine.worker.processed = <<2>>
  /\ engine.turn_audio # <<>>

(***************************************************************************)
(* C26: cancellation wins the check-then-act race.  Once the interrupt     *)
(* event has been set for a response, no sentence of that response that    *)
(* had not started to play starts to play afterwards, under every          *)
(* interleaving of the TTS worker, the generation loop and the main loop.  *)
(***************************************************************************)
C26_CancellationWins == ~engine.resurrected

(***************************************************************************)
(* C27: an accepted interruption aborts the playback in flight.  The       *)
(* running speak call was given the interrupt event, and after the event   *)
(* was set during the call no further chunk of the sentence is written,    *)
(* with either TTS implementation.                                         *)
(***************************************************************************)
C27_InterruptAbortsPlayback ==
  engine.tts.interrupted =>
    /\ engine.tts.interrupt_event
    /\ engine.tts.late = 0

(***************************************************************************)
(* C28: a phase with no outgoing transition is terminal.  When the active  *)
(* phase is terminal, the evaluation after a turn requests no phase        *)
(* change, whatever signals were emitted, and ends the session exactly     *)
(* when the completion signal of the phase is among them; the phase stays  *)
(* the active phase.  A session is ended in a terminal phase only.         *)
(***************************************************************************)
C28_TerminalPhaseEndsSession ==
  /\ (evaluator.evaluated
        /\ IsTerminal(evaluator.transitions, state.current_phase_id)) =>
       /\ evaluator.next = NoPhase
       /\ evaluator.shutdown
            <=> CompletionSignal(state.current_phase_id) \in evaluator.emitted
  /\ evaluator.shutdown =>
       IsTerminal(evaluator.transitions, state.current_phase_id)
  /\ \A sigs \in SUBSET SignalNames :
       IsTerminal(evaluator.transitions, state.current_phase_id) =>
         FindTransition(evaluator.transitions, state.current_phase_id, sigs)
           = NoPhase

\* the session reached the terminal phase closing by a transition, whose
\* target is closing, and ended there on the completion signal
C28_Witness ==
  /\ state.current_phase_id = "closing"
  /\ Len(evaluator.transitions) >= 1
  /\ evaluator.transitions[1].to_phase = "closing"
  /\ evaluator.evaluated
  /\ evaluator.shutdown
  /\ evaluator.emitted = {"done"}

\* another signal in the terminal phase: nothing happens
C28_WitnessOtherSignal ==
  /\ state.current_phase_id = "closing"
  /\ Len(evaluator.transitions) >= 1
  /\ evaluator.evaluated
  /\ evaluator.emitted = {"more"}
  /\ ~evaluator.shutdown
  /\ evaluator.next = NoPhase

\* the last n elements of a sequence
LastN(seq, n) == SubSeq(seq, Len(seq) - n + 1, Len(seq))

Min(a, b) == IF a <= b THEN a ELSE b

HeldIds(b) == { b.events[i].message_id : i \in 1..Len(b.events) }

(***************************************************************************)
(* C29: after any sequence of add_event calls the buffer holds exactly the *)
(* last min(n, max_size) accepted events in arrival order; add_event       *)
(* accepts an event (returns True) iff its message_id is not that of an    *)
(* event held; a rejected duplicate leaves the buffer as it is; and the    *)
(* ids remembered are the ids of the events held.                          *)
(***************************************************************************)
C29_BufferHoldsLastAccepted ==
  /\ buffer.events
       = LastN(buffer.accepted, Min(Len(buffer.accepted), buffer.max_size))
  /\ buffer.event_ids = HeldIds(buffer)
  /\ \A event \in WSEventMessages :
       LET b == AddEvent(buffer, event)
       IN /\ b.result <=> event.message_id \notin HeldIds(buffer)
          /\ ~b.result => /\ b.events = buffer.events
                          /\ b.event_ids = buffer.event_ids
                          /\ b.accepted = buffer.accepted
          /\ b.result => b.accepted = Append(buffer.accepted, event)

\* the buffer of two events has dropped m1 and accepted it again
C29_Witness ==
  /\ buffer.max_size = 2
  /\ Len(buffer.accepted) = 4
  /\ buffer.accepted[1].message_id = "m1"
  /\ buffer.accepted[4].message_id = "m1"
  /\ buffer.result
  /\ Len(buffer.events) = 2

\* a duplicate of an event held was rejected
C29_WitnessDuplicate ==
  /\ buffer.calls = 2
  /\ Len(buffer.accepted) = 1
  /\ ~buffer.result
  /\ buffer.max_size >= 1

(***************************************************************************)
(* C30: a turn is handed to processing once.  Between two consecutive      *)
(* RESET_TURN events, that is for one turn_id, at most one PROCESS_TURN    *)
(* action is emitted, whatever speech, frame and tick events are reduced   *)
(* in between.                                                             *)
(***************************************************************************)
C30_OneProcessTurnPerTurn == session.processed <= 1

(***************************************************************************)
(* C31: what RESET_TURN does to the data of speech that began after the    *)
(* PROCESS_TURN of the turn.  The machine is IDLE after PROCESS_TURN and   *)
(* only VAD_SPEECH_START takes it out of IDLE, so a machine that is not    *)
(* IDLE after a PROCESS_TURN of the current turn_id holds data of speech   *)
(* that began after the emission.                                          *)
(***************************************************************************)
SpeechAfterProcessTurn ==
  session.processed >= 1 /\ state.state_machine # "IDLE"

ResetsNext == { e \in ResetTurnEvents(LimitTimes) : e.timestamp >= clock }

\* C31 as stated: the audio frames, last_voice_time and turn_start_time
\* held for speech that began after the PROCESS_TURN emission are still
\* there after the RESET_TURN of the processed turn is reduced.
C31_ResetKeepsNewSpeech ==
  SpeechAfterProcessTurn =>
    \A e \in ResetsNext :
      LET r == Reduce(state, e).state
      IN /\ r.turn_audio_buffer = state.turn_audio_buffer
         /\ r.last_voice_time = state.last_voice_time
         /\ r.turn_start_time = state.turn_start_time

\* C31 amended: RESET_TURN discards the turn-scoped data whenever it was
\* recorded; after the RESET_TURN that follows a PROCESS_TURN is reduced
\* the audio buffer is empty and last_voice_time and turn_start_time are
\* unset, also when speech began after the PROCESS_TURN emission.
C31_ResetDiscardsNewSpeech ==
  SpeechAfterProcessTurn =>
    \A e \in ResetsNext :
      LET r == Reduce(state, e).state
      IN /\ r.turn_audio_buffer = <<>>
         /\ r.last_voice_time = None
         /\ r.turn_start_time = None
         /\ r.turn_id = state.turn_id + 1

\* speech began after the PROCESS_TURN, a frame and its times are held, and
\* the RESET_TURN of the processed turn comes next
C31_Witness ==
  /\ SpeechAfterProcessTurn
  /\ state.is_human_speaking
  /\ state.turn_audio_buffer # <<>>
  /\ state.last_voice_time = clock
  /\ Truthy(state.turn_start_time)
  /\ ResetsNext # {}
  /\ state.turn_id < MaxTurns

(***************************************************************************)
(* C32: is_ai_speaking while a sentence is played.  The sentences handed   *)
(* out by SPEAK_SENTENCE are stream.spoken; the first stream.finished of   *)
(* them were reported finished, the first stream.cut of them were handed   *)
(* out before the last INTERRUPT_AI.  A sentence handed out after the last *)
(* interruption and not yet reported finished is still being played.       *)
(***************************************************************************)
PlayingUninterrupted ==
  { k \in 1..Len(stream.spoken) : k > stream.cut /\ k > stream.finished }

\* C32: is_ai_speaking is true for as long as a sentence handed out by a
\* SPEAK_SENTENCE that was not interrupted is still being played; the
\* AI_SPEECH_FINISHED of an interrupted sentence, reduced after a new
\* AI_SENTENCE_READY, does not set is_ai_speaking to false.
C32_SpeakingWhilePlaying ==
  PlayingUninterrupted # {} => state.is_ai_speaking

(***************************************************************************)
(* C33, C34: the PLAY_ACK of the speaking limit.                           *)
(***************************************************************************)
\* the events of a human turn that can come next in a run around the limit
LimitEvents ==
  LET T == { t \in LimitTimes : t >= clock }
  IN SpeechStartEvents(T) \cup SpeechStopEvents(T) \cup AudioFrameEvents(T)
       \cup TickEvents(T) \cup ResetTurnEvents(T)

\* C33: PLAY_ACK is emitted only while a human turn is in progress: a
\* reduce call emits PLAY_ACK only if state_machine was SPEAKING or PAUSING
\* before the event, never while the machine is IDLE after the turn's
\* PROCESS_TURN.
C33_AckOnlyDuringTurn ==
  \A e \in LimitEvents :
    HasAction(Reduce(state, e).actions, "PLAY_ACK")
      => state.state_machine \in {"SPEAKING", "PAUSING"}

\* C34: at most one PLAY_ACK per turn.  The PLAY_ACK actions emitted since
\* the last RESET_TURN are at most one, human_speaking_limit_ack_sent is
\* true from the emission until the next RESET_TURN, and no reduce call
\* emits PLAY_ACK when human_speaking_limit_sec is not configured or when
\* now - turn_start_time <= limit.
C34_OneAckPerTurn ==
  /\ session.acks <= 1
  /\ session.acks = 1 => state.human_speaking_limit_ack_sent
  /\ \A e \in LimitEvents :
       LET r == Reduce(state, e)
       IN /\ state.human_speaking_limit_ack_sent /\ e.type # "RESET_TURN"
               => r.state.human_speaking_limit_ack_sent
          /\ HasAction(r.actions, "PLAY_ACK")
               => /\ Truthy(state.human_speaking_limit_sec)
                  /\ Truthy(r.state.turn_start_time)
                  /\ state.turn_start_time \in {None, r.state.turn_start_time}
                  /\ e.timestamp - r.state.turn_start_time
                       > 1000 * state.human_speaking_limit_sec

\* the ack of the turn was played, the turn went on and ended after it
C34_Witness ==
  /\ session.acks = 1
  /\ session.processed >= 1
  /\ state.human_speaking_limit_ack_sent
  /\ clock = 7500

\* a session without a limit has a turn as long without an ack
C34_WitnessNoLimit ==
  /\ state.human_speaking_limit_sec = None
  /\ session.acks = 0
  /\ state.turn_start_time = 1000
  /\ clock = 7500

(***************************************************************************)
(* C35: a forced end closes the microphone.  Once force_ended is true      *)
(* every event but RESET_TURN leaves it true, and an AUDIO_FRAME reduced   *)
(* while it is true leaves turn_audio_buffer, last_voice_time and the      *)
(* interrupt counters as they were and produces no INTERRUPT_AI.           *)
(***************************************************************************)
C35_ForceEndedClosesMic ==
  state.force_ended =>
    \A e \in TotalEvents :
      LET r == Reduce(state, e)
      IN /\ e.type # "RESET_TURN" => r.state.force_ended
         /\ e.type = "AUDIO_FRAME" =>
              /\ r.state.turn_audio_buffer = state.turn_audio_buffer
              /\ r.state.last_voice_time = state.last_voice_time
              /\ InterruptCounters(r.state) = InterruptCounters(state)
              /\ ~HasAction(r.actions, "INTERRUPT_AI")

\* the turn was force-ended, the AI speaks, and a frame comes next that
\* would interrupt the AI if the microphone were open
C35_Witness ==
  /\ state.force_ended
  /\ state.is_ai_speaking
  /\ \E e \in AudioFrameEvents(TotalTimes) :
       HasAction(Reduce([state EXCEPT !.force_ended = FALSE], e).actions,
                 "INTERRUPT_AI")

(***************************************************************************)
(* C36: in every reachable state is_human_speaking implies that            *)
(* state_machine is SPEAKING: the machine neither pauses nor ends a turn   *)
(* while the human is marked as speaking.                                  *)
(***************************************************************************)
C36_HumanSpeakingIsSpeaking ==
  state.is_human_speaking => state.state_machine = "SPEAKING"

\* the human is marked as speaking and an event was reduced a pause or
\* more after the last voice: the machine has not paused
C36_Witness ==
  /\ state.is_human_speaking
  /\ state.state_machine = "SPEAKING"
  /\ Truthy(state.last_voice_time)
  /\ clock - state.last_voice_time >= state.pause_ms

\* speech resumed in a pause, after the turn's ack
C36_WitnessResumed ==
  /\ state.is_human_speaking
  /\ state.state_machine = "SPEAKING"
  /\ state.human_speaking_limit_ack_sent
  /\ Truthy(state.turn_start_time)
  /\ state.last_voice_time > state.turn_start_time

(***************************************************************************)
(* C37: one reduce call emits at most one PROCESS_TURN, and after a call   *)
(* that emits PROCESS_TURN the machine is IDLE and turn_end_reason is the  *)
(* reason the action carries: the checks of part 2 (silence, safety        *)
(* timeout) and the check of part 3 (speaking limit) do not both end the   *)
(* turn for the same event.                                                *)
(***************************************************************************)
C37_OneProcessTurnPerCall ==
  \A e \in LimitEvents :
    LET r == Reduce(state, e)
        reasons == ActionReasons(r.actions, "PROCESS_TURN")
    IN /\ Len(reasons) <= 1
       /\ Len(reasons) = 1 =>
            /\ r.state.state_machine = "IDLE"
            /\ r.state.turn_end_reason = reasons[1]
            /\ reasons[1] \in {"silence", "safety_timeout", "limit_exceeded"}

\* the machine pauses and the next event can come when the silence has
\* lasted long enough and the limit is exceeded too: part 2 ends the turn
\* and part 3 plays the ack in the same call
C37_Witness ==
  /\ state.state_machine = "PAUSING"
  /\ \E e \in LimitEvents :
       LET r == Reduce(state, e)
       IN /\ HasAction(r.actions, "PLAY_ACK")
          /\ ActionReasons(r.actions, "PROCESS_TURN") \in
               { <<"silence">>, <<"safety_timeout">> }

\* the pause and the end by the limit in one call
C37_WitnessLimit ==
  /\ state.state_machine = "SPEAKING"
  /\ \E e \in LimitEvents :
       ActionReasons(Reduce(state, e).actions, "PROCESS_TURN")
         = <<"limit_exceeded">>

(***************************************************************************)
(* C38: in the threaded engine ai_speaking is true whenever a sentence is  *)
(* waiting in response_queue or is being played, under every interleaving  *)
(* of the TTS worker, which sets the flag to false after each sentence,    *)
(* with the producers, which set it to true before they enqueue.           *)
(***************************************************************************)
C38_SpeakingWhilePending ==
  (engine.response_queue # <<>> \/ engine.tts.pc = "speaking")
    => engine.ai_speaking

(***************************************************************************)
(* C39: the interruption decision of the Reducer against that of the       *)
(* InterruptionManager it was moved from.  Both are asked about the same   *)
(* frame: the same authority and sensitivity, the same partial transcript  *)
(* and energy flag, the AI speaking, and the same time of the last         *)
(* accepted interruption, which each keeps in its own last_interrupt_time. *)
(***************************************************************************)
ManagerOf(s) ==
  InterruptionManager(s.interruption_sensitivity, s.authority,
                      s.last_interrupt_time)

ManagerAccepts(s, e) ==
  ShouldInterrupt(ManagerOf(s), s.is_ai_speaking, e.timestamp, e.is_speech,
                  s.current_partial_transcript).should

\* C39: for authority default and ai, every sensitivity, word count, energy
\* flag and time since the last accepted interruption,
\* Reducer._check_interruption accepts exactly when
\* InterruptionManager.should_interrupt accepts.
C39_SameDecisionAsManager ==
  state.authority \in {"default", "ai"} /\ state.is_ai_speaking =>
    \A e \in AudioFrameEvents(TotalTimes) :
      CheckInterruption(state, e).should <=> ManagerAccepts(state, e)

(***************************************************************************)
(* C40: the frame of TICK.  A TICK changes no field of the state but       *)
(* state_machine, force_ended, turn_end_reason and                         *)
(* human_speaking_limit_ack_sent: the audio buffer, the transcripts, the   *)
(* speaking flags, the AI speech queue, the interrupt counters, the three  *)
(* times, the phase fields, turn_id and the configuration stay as they     *)
(* were.                                                                   *)
(***************************************************************************)
C40_TickFrame ==
  \A e \in TickEvents(TotalTimes) :
    LET r == Reduce(state, e).state
    IN [r EXCEPT !.state_machine = state.state_machine,
                 !.force_ended = state.force_ended,
                 !.turn_end_reason = state.turn_end_reason,
                 !.human_speaking_limit_ack_sent =
                    state.human_speaking_limit_ack_sent]
         = state

\* the turn holds audio and a transcript, the AI speaks, and the next TICK
\* can force the end of the turn
C40_Witness ==
  /\ state.state_machine = "PAUSING"
  /\ state.turn_audio_buffer # <<>>
  /\ state.current_partial_transcript # <<>>
  /\ state.is_ai_speaking
  /\ \E e \in TickEvents(TotalTimes) :
       LET r == Reduce(state, e).state
       IN r.force_ended /\ r.state_machine = "IDLE"
            /\ r.turn_end_reason = "safety_timeout"

\* the next TICK can play the ack of the limit while the human speaks
C40_WitnessAck ==
  /\ state.is_human_speaking
  /\ ~state.human_speaking_limit_ack_sent
  /\ \E e \in TickEvents(TotalTimes) :
       LET r == Reduce(state, e)
       IN r.state.human_speaking_limit_ack_sent
            /\ HasAction(r.actions, "PLAY_ACK")
            /\ r.state.state_machine = "SPEAKING"

TypeOK ==
  /\ state.state_machine \in {"IDLE", "SPEAKING", "PAUSING"}
  /\ state.turn_id \in 0..MaxResets
  /\ scenario.pc \in 0..Len(scenario.script)
  /\ stream.finished \in 0..Len(stream.spoken)

====
